---------------------------- MODULE Spec2Model ----------------------------
(***************************************************************************)
(* A model of the collision engine of src/optimized_collision.py:          *)
(* SpatialHash, CollisionCache and OptimizedCollisionDetector.             *)
(*                                                                         *)
(* Entities are the integers 1..NumEnt; an entity's number is its Python   *)
(* id().  rect[e] is the pygame.Rect of entity e, a record [x, y, w, h].   *)
(* The specifications share the variables:                                 *)
(*   SpecHash      - a SpatialHash driven by clear / insert / query;       *)
(*   SpecCache     - a CollisionCache driven by get / put / clear and      *)
(*                   entity moves;                                         *)
(*   SpecCacheHist - the same, with the history of the puts recorded;      *)
(*   Spec          - an OptimizedCollisionDetector driven by the two       *)
(*                   queries, entity moves and clear_cache;                *)
(*   SpecDet       - an OptimizedCollisionDetector driven by the two       *)
(*                   queries with kill flags and custom predicates,        *)
(*                   reset_stats, get_stats and clear_cache.               *)
(*   SpecSize      - an OptimizedCollisionDetector queried while a sprite  *)
(*                   changes the size of its rectangle;                    *)
(*   SpecGame      - a GameLogic object (src/game_logic.py) with its       *)
(*                   StateManager and PoolManager, driven by the key       *)
(*                   events of InputHandler, the calls of a frame and      *)
(*                   game_over().                                          *)
(***************************************************************************)
EXTENDS Integers, Sequences, FiniteSets, TLC

VARIABLES
    cell_size,      \* SpatialHash.cell_size
    hash_table,     \* SpatialHash.hash_table: cell -> list of sprites
    rect,           \* entity -> its pygame.Rect
    cache,          \* CollisionCache.cache: key -> bool
    access_order,   \* CollisionCache.access_order: list of keys, oldest first
    max_size,       \* CollisionCache.max_size
    groupA,         \* a pygame.sprite.Group of the caller
    groupB,         \* a second pygame.sprite.Group of the caller
    stats,          \* OptimizedCollisionDetector.stats: the four counters
    op,             \* the operation that produced this state
    args,           \* its arguments
    ret,            \* what it returned
    hist,           \* history of the run (auxiliary, read by the properties only)
    game            \* the GameLogic object, with its state manager and pools

vars == <<cell_size, hash_table, rect, cache, access_order, max_size,
          groupA, groupB, stats, op, args, ret, hist, game>>

---------------------------------------------------------------------------
(* Program constants and bounds *)

SCREEN_WIDTH == 480
SCREEN_HEIGHT == 700
DEFAULT_CELL_SIZE == 64
DEFAULT_MAX_SIZE == 1000

NumEnt == 2          \* entities in a run
MaxCapacity == 2     \* largest max_size of a CollisionCache on its own

Ent == 1..NumEnt

\* Cell sizes of the runs: the two ends of 1..1024 and the default.
CellSizes == {1, DEFAULT_CELL_SIZE, 1024}

Max(a, b) == IF a >= b THEN a ELSE b
Min(a, b) == IF a <= b THEN a ELSE b
Range(s) == {s[i] : i \in DOMAIN s}

\* OptimizedCollisionDetector.stats after __init__ and after reset_stats.
\* The collision engine on its own runs without a GameLogic object.
NoGame == <<>>

ZeroStats ==
    [total_checks |-> 0, cache_hits |-> 0, actual_collisions |-> 0,
     spatial_hash_queries |-> 0]

---------------------------------------------------------------------------
(* pygame.Rect *)

Rect(x, y, w, h) == [x |-> x, y |-> y, w |-> w, h |-> h]
left(r) == r.x
right(r) == r.x + r.w
top(r) == r.y
bottom(r) == r.y + r.h

\* pygame.Rect.colliderect: strict overlap; a rectangle of zero width or
\* height collides with nothing.
colliderect(a, b) ==
    /\ a.w # 0 /\ a.h # 0 /\ b.w # 0 /\ b.h # 0
    /\ left(a) < right(b)
    /\ top(a) < bottom(b)
    /\ right(a) > left(b)
    /\ bottom(a) > top(b)

\* Rectangles of the runs of a SpatialHash with cell size cs: a bullet
\* (BULLET_SIZE) fully off-screen (negative, beyond, and on one axis only),
\* partly off-screen at both corners, in the first and in the last on-screen
\* corner, across and on a cell boundary, and a square of two cells by two.
HashRects(cs) ==
    { Rect(-200, -200, 5, 10), Rect(-3, -3, 5, 10), Rect(0, 0, 5, 10),
      Rect(62, 62, 5, 10), Rect(64, 128, 5, 10), Rect(474, 689, 5, 10),
      Rect(478, 698, 5, 10), Rect(600, 800, 5, 10), Rect(-200, 62, 5, 10),
      Rect(0, 0, 2 * cs, 2 * cs) }

---------------------------------------------------------------------------
(* SpatialHash *)

EmptyTable == [c \in {} |-> <<>>]

\* SpatialHash._get_cells: the cells a rectangle covers, as a set (the
\* code's list holds each cell once).
_get_cellsDrop(r, cs) ==
    LET start_x == Max(0, left(r) \div cs)
        end_x   == Min(SCREEN_WIDTH \div cs, right(r) \div cs)
        start_y == Max(0, top(r) \div cs)
        end_y   == Min(SCREEN_HEIGHT \div cs, bottom(r) \div cs)
    IN  IF left(r) < 0 \/ top(r) < 0 THEN {}
        ELSE { <<x, y>> : x \in start_x..end_x, y \in start_y..end_y }

_get_cellsNoClamp(r, cs) ==
    { <<x, y>> : x \in (left(r) \div cs)..(right(r) \div cs),
                 y \in (top(r) \div cs)..(bottom(r) \div cs) }

_get_cellsTopLeft(r, cs) ==
    LET start_x == Max(0, left(r) \div cs)
        end_x   == Min(SCREEN_WIDTH \div cs, right(r) \div cs)
        start_y == Max(0, top(r) \div cs)
        end_y   == Min(SCREEN_HEIGHT \div cs, bottom(r) \div cs)
    IN  IF start_x <= end_x /\ start_y <= end_y THEN { <<start_x, start_y>> } ELSE {}

_get_cells(r, cs) ==
    LET start_x == Max(0, left(r) \div cs)
        end_x   == Min(SCREEN_WIDTH \div cs, right(r) \div cs)
        start_y == Max(0, top(r) \div cs)
        end_y   == Min(SCREEN_HEIGHT \div cs, bottom(r) \div cs)
    IN  { <<x, y>> : x \in start_x..end_x, y \in start_y..end_y }

\* SpatialHash.insert: append the sprite to the bucket of every cell it
\* covers, creating the bucket when the cell has none.
insert(ht, sprite, r, cs) ==
    LET cells == _get_cells(r, cs)
    IN  [c \in DOMAIN ht \cup cells |->
            IF c \in cells
            THEN (IF c \in DOMAIN ht THEN Append(ht[c], sprite) ELSE <<sprite>>)
            ELSE ht[c]]

\* SpatialHash.query: the union of the buckets of the covered cells, without
\* the sprite itself.
queryKeepSelf(ht, sprite, r, cs) ==
    UNION { Range(ht[c]) : c \in _get_cells(r, cs) \cap DOMAIN ht }

query(ht, sprite, r, cs) ==
    (UNION { Range(ht[c]) : c \in _get_cells(r, cs) \cap DOMAIN ht }) \ {sprite}

---------------------------------------------------------------------------
(* CollisionCache.  A cache is the record [cache, access_order]; None is    *)
(* the empty set and a cached boolean b is returned as {b}.                *)

None == {}
Some(b) == {b}

NoCache == [k \in {} |-> TRUE]
NewCache == [cache |-> NoCache, access_order |-> <<>>]

Pos(r) == <<r.x, r.y>>

\* list.remove: drop the first occurrence of x.
Remove(s, x) ==
    LET i == CHOOSE j \in DOMAIN s : s[j] = x /\ \A k \in 1..(j - 1) : s[k] # x
    IN  SubSeq(s, 1, i - 1) \o SubSeq(s, i + 1, Len(s))

\* del d[k]
Del(d, k) == [x \in DOMAIN d \ {k} |-> d[x]]

\* d[k] = v
Set(d, k, v) == [x \in DOMAIN d \cup {k} |-> IF x = k THEN v ELSE d[x]]

\* CollisionCache._get_cache_key: the two ids in ascending order, then the
\* position of the first argument and the position of the second.
_get_cache_keyNoPos(sprite1, sprite2, rc) ==
    <<Min(sprite1, sprite2), Max(sprite1, sprite2), <<0, 0>>, <<0, 0>>>>

_get_cache_key(sprite1, sprite2, rc) ==
    LET id1 == IF sprite1 > sprite2 THEN sprite2 ELSE sprite1
        id2 == IF sprite1 > sprite2 THEN sprite1 ELSE sprite2
        pos1 == Pos(rc[sprite1])
        pos2 == Pos(rc[sprite2])
    IN  <<id1, id2, pos1, pos2>>

\* CollisionCache.get: the cache after the call and the value returned.
getNoPromote(c, sprite1, sprite2, rc) ==
    LET key == _get_cache_key(sprite1, sprite2, rc)
    IN  IF key \in DOMAIN c.cache
        THEN [c |-> c, result |-> Some(c.cache[key])]
        ELSE [c |-> c, result |-> None]

get(c, sprite1, sprite2, rc) ==
    LET key == _get_cache_key(sprite1, sprite2, rc)
    IN  IF key \in DOMAIN c.cache
        THEN [c |-> [c EXCEPT !.access_order = Append(Remove(c.access_order, key), key)],
              result |-> Some(c.cache[key])]
        ELSE [c |-> c, result |-> None]

\* CollisionCache.put: the cache after the call.
putNoEvict(c, sprite1, sprite2, result, rc, maxsz) ==
    LET key == _get_cache_key(sprite1, sprite2, rc)
    IN  [cache |-> Set(c.cache, key, result),
         access_order |->
            Append(IF key \in Range(c.access_order)
                   THEN Remove(c.access_order, key) ELSE c.access_order, key)]

putEvictWhenFull(c, sprite1, sprite2, result, rc, maxsz) ==
    LET key == _get_cache_key(sprite1, sprite2, rc)
        full == Cardinality(DOMAIN c.cache) >= maxsz
        oldest_key == Head(c.access_order)
        c1 == IF full
              THEN [cache |-> Del(c.cache, oldest_key),
                    access_order |-> Tail(c.access_order)]
              ELSE c
    IN  [cache |-> Set(c1.cache, key, result),
         access_order |->
            Append(IF key \in Range(c1.access_order)
                   THEN Remove(c1.access_order, key) ELSE c1.access_order, key)]

put(c, sprite1, sprite2, result, rc, maxsz) ==
    LET key == _get_cache_key(sprite1, sprite2, rc)
        full == Cardinality(DOMAIN c.cache) >= maxsz /\ key \notin DOMAIN c.cache
        oldest_key == Head(c.access_order)
        c1 == IF full
              THEN [cache |-> Del(c.cache, oldest_key),
                    access_order |-> Tail(c.access_order)]
              ELSE c
    IN  [cache |-> Set(c1.cache, key, result),
         access_order |->
            Append(IF key \in Range(c1.access_order)
                   THEN Remove(c1.access_order, key) ELSE c1.access_order, key)]

---------------------------------------------------------------------------
(* A CollisionCache on its own, with entities that move between calls.     *)
(* hist is [lru, track, stored, evicted, afterHit, overwrote]: lru lists   *)
(* the cached keys by their most recent access (a put, or a get that hit),  *)
(* oldest                                                                   *)
(* first; in a run with track set, stored holds, for each put since the     *)
(* last clear, which entity was where and the value put; evicted holds the  *)
(* keys the last put removed, afterHit says that it followed a get that    *)
(* hit and overwrote that its key was cached already.                      *)

\* The two entities of a cache run and the positions they take.
CacheEnt == {1, 2}
CachePositions == { <<0, 0>>, <<10, 0>> }

Placed(a, b, rc) == { <<a, Pos(rc[a])>>, <<b, Pos(rc[b])>> }

Touch(lru, key, present) ==
    LET kept == SelectSeq(lru, LAMBDA k : k # key /\ k \in present)
    IN  IF key \in present THEN Append(kept, key) ELSE kept

InitCacheWith(track) ==
    /\ cell_size = DEFAULT_CELL_SIZE
    /\ hash_table = EmptyTable
    /\ rect \in [CacheEnt -> { Rect(p[1], p[2], 5, 10) : p \in CachePositions }]
    /\ cache = NoCache
    /\ access_order = <<>>
    /\ max_size \in 1..MaxCapacity
    /\ groupA = {}
    /\ groupB = {}
    /\ stats = ZeroStats
    /\ game = NoGame
    /\ op = "init"
    /\ args = <<>>
    /\ ret = None
    /\ hist = [lru |-> <<>>, track |-> track, stored |-> {}, evicted |-> {},
               afterHit |-> FALSE, overwrote |-> FALSE]

InitCache == InitCacheWith(FALSE)
InitCacheHist == InitCacheWith(TRUE)

CacheGet(a, b) ==
    LET r == get([cache |-> cache, access_order |-> access_order], a, b, rect)
        key == _get_cache_key(a, b, rect)
    IN  /\ cache' = r.c.cache
        /\ access_order' = r.c.access_order
        /\ op' = "get"
        /\ args' = <<a, b>>
        /\ ret' = r.result
        /\ hist' = [hist EXCEPT !.lru = IF r.result # None
                                         THEN Touch(hist.lru, key, DOMAIN cache')
                                         ELSE hist.lru,
                                 !.evicted = {}, !.afterHit = FALSE,
                                 !.overwrote = FALSE]
        /\ UNCHANGED <<game, cell_size, hash_table, rect, max_size, groupA, groupB, stats>>

CachePut(a, b, result) ==
    LET c == put([cache |-> cache, access_order |-> access_order], a, b, result,
                 rect, max_size)
        key == _get_cache_key(a, b, rect)
    IN  /\ cache' = c.cache
        /\ access_order' = c.access_order
        /\ op' = "put"
        /\ args' = <<a, b, result>>
        /\ ret' = None
        /\ hist' = [lru |-> Touch(hist.lru, key, DOMAIN cache'),
                    track |-> hist.track,
                    stored |-> IF hist.track
                               THEN hist.stored \cup
                                      {[who |-> Placed(a, b, rect), val |-> result]}
                               ELSE {},
                    evicted |-> DOMAIN cache \ DOMAIN cache',
                    afterHit |-> op = "get" /\ ret # None,
                    overwrote |-> key \in DOMAIN cache]
        /\ UNCHANGED <<game, cell_size, hash_table, rect, max_size, groupA, groupB, stats>>

\* CollisionCache.clear
CacheClear ==
    /\ cache' = NoCache
    /\ access_order' = <<>>
    /\ op' = "clear"
    /\ args' = <<>>
    /\ ret' = None
    /\ hist' = [lru |-> <<>>, track |-> hist.track, stored |-> {}, evicted |-> {},
                afterHit |-> FALSE, overwrote |-> FALSE]
    /\ UNCHANGED <<game, cell_size, hash_table, rect, max_size, groupA, groupB, stats>>

\* The caller moves an entity: rect.x, rect.y = p.
CacheMove(e, p) ==
    /\ Pos(rect[e]) # p
    /\ rect' = [rect EXCEPT ![e] = Rect(p[1], p[2], rect[e].w, rect[e].h)]
    /\ op' = "move"
    /\ args' = <<e>>
    /\ ret' = None
    /\ hist' = [hist EXCEPT !.evicted = {}, !.afterHit = FALSE,
                                 !.overwrote = FALSE]
    /\ UNCHANGED <<game, cell_size, hash_table, cache, access_order, max_size,
                   groupA, groupB, stats>>

NextCache ==
    \/ \E a, b \in CacheEnt : a # b /\ CacheGet(a, b)
    \/ \E a, b \in CacheEnt, result \in BOOLEAN : a # b /\ CachePut(a, b, result)
    \/ CacheClear
    \/ \E e \in CacheEnt, p \in CachePositions : CacheMove(e, p)

SpecCache == InitCache /\ [][NextCache]_vars
SpecCacheHist == InitCacheHist /\ [][NextCache]_vars

---------------------------------------------------------------------------
(* Properties of the CollisionCache *)

\* C3: a get returns a value only if a put stored that value for the same two
\* entities while each of them was at the position it has now.
C3_NoStaleHit ==
    (op = "get" /\ ret # None) =>
        \E s \in hist.stored :
            s.who = Placed(args[1], args[2], rect) /\ s.val \in ret

\* C4: a get that follows a put on the same two entities, in either argument
\* order and with neither entity moved in between, returns the value put.
C4_UnorderedPair ==
    [][ ( /\ op = "put" /\ op' = "get"
          /\ {args'[1], args'[2]} = {args[1], args[2]} )
        => ret' = Some(args[3]) ]_vars

\* The same for a get with the arguments in the order of the put, which the
\* code does satisfy.
C4_SameOrder ==
    [][ ( /\ op = "put" /\ op' = "get"
          /\ <<args'[1], args'[2]>> = <<args[1], args[2]>> )
        => ret' = Some(args[3]) ]_vars

\* C5: a put that adds a key while the cache holds max_size entries removes
\* exactly one entry, the one whose most recent access (a put, or a get that
\* hit) is the oldest.
C5_LruEviction ==
    [][ ( /\ op' = "put"
          /\ Cardinality(DOMAIN cache) = max_size
          /\ DOMAIN cache' \ DOMAIN cache # {} )
        => DOMAIN cache \ DOMAIN cache' = {Head(hist.lru)} ]_vars

\* A put evicts right after a get has promoted the entry that was put first,
\* in a cache of more than one entry.
C5_Witness ==
    /\ op = "put"
    /\ hist.afterHit
    /\ hist.evicted # {}
    /\ max_size > 1
    /\ Len(access_order) = max_size

\* C6: the cache holds at most max_size entries and access_order lists exactly
\* the keys of the cache, each once.
C6_BoundedAndConsistent ==
    /\ Cardinality(DOMAIN cache) <= max_size
    /\ Range(access_order) = DOMAIN cache
    /\ Len(access_order) = Cardinality(DOMAIN cache)

\* A put into a full cache of the largest capacity has evicted an entry.
C6_Witness ==
    /\ op = "put"
    /\ hist.evicted # {}
    /\ max_size = MaxCapacity
    /\ Cardinality(DOMAIN cache) = max_size

\* C23: a put on a key that is cached already stores the new value, makes the
\* key the most recently used and removes no key, also when the cache is full;
\* a put on a key that is not cached removes at most one key.  After either,
\* the key holds the value put and the other keys hold what they held.
C23_PutOverwrites ==
    [][ op' = "put" =>
          LET key == _get_cache_key(args'[1], args'[2], rect)
          IN  /\ key \in DOMAIN cache'
              /\ cache'[key] = args'[3]
              /\ access_order'[Len(access_order')] = key
              /\ \A k \in (DOMAIN cache \cap DOMAIN cache') \ {key} :
                     cache'[k] = cache[k]
              /\ key \in DOMAIN cache =>
                     /\ DOMAIN cache' = DOMAIN cache
                     /\ Range(access_order') = Range(access_order)
                     /\ Len(access_order') = Len(access_order)
              /\ key \notin DOMAIN cache =>
                     /\ Cardinality(DOMAIN cache \ DOMAIN cache') <= 1
                     /\ DOMAIN cache' \ DOMAIN cache = {key} ]_vars

\* A put on a cached key of a full cache of two keys, which removed none; and
\* a put of a new key into a full cache, which removed one key.
C23_Witness ==
    /\ op = "put" /\ hist.overwrote
    /\ max_size = 2 /\ Cardinality(DOMAIN cache) = 2
    /\ hist.lru = access_order
    /\ hist.evicted = {}

C23_WitnessNewKey ==
    /\ op = "put" /\ ~hist.overwrote
    /\ Cardinality(DOMAIN cache) = max_size
    /\ Cardinality(hist.evicted) = 1

---------------------------------------------------------------------------
(* A SpatialHash on its own.  hist is the list of the sprites inserted      *)
(* since the last clear; as in a rebuild of the index from a group, a       *)
(* sprite is inserted once between two clears.                             *)

InitHash ==
    /\ cell_size \in CellSizes
    /\ rect \in [Ent -> HashRects(cell_size)]
    /\ hash_table = EmptyTable
    /\ cache = NoCache
    /\ access_order = <<>>
    /\ max_size = DEFAULT_MAX_SIZE
    /\ groupA = {}
    /\ groupB = {}
    /\ stats = ZeroStats
    /\ game = NoGame
    /\ op = "init"
    /\ args = <<>>
    /\ ret = {}
    /\ hist = <<>>

\* SpatialHash.clear
HashClear ==
    /\ hash_table' = EmptyTable
    /\ op' = "clear"
    /\ args' = <<>>
    /\ ret' = {}
    /\ hist' = <<>>
    /\ UNCHANGED <<game, cell_size, rect, cache, access_order, max_size, groupA, groupB, stats>>

HashInsert(e) ==
    /\ e \notin Range(hist)
    /\ hash_table' = insert(hash_table, e, rect[e], cell_size)
    /\ op' = "insert"
    /\ args' = <<e>>
    /\ ret' = {}
    /\ hist' = Append(hist, e)
    /\ UNCHANGED <<game, cell_size, rect, cache, access_order, max_size, groupA, groupB, stats>>

HashQuery(e) ==
    /\ op' = "query"
    /\ args' = <<e>>
    /\ ret' = query(hash_table, e, rect[e], cell_size)
    /\ UNCHANGED <<game, cell_size, hash_table, rect, cache, access_order, max_size,
                   groupA, groupB, stats, hist>>

NextHash ==
    \/ HashClear
    \/ \E e \in Ent : HashInsert(e)
    \/ \E e \in Ent : HashQuery(e)

SpecHash == InitHash /\ [][NextHash]_vars

---------------------------------------------------------------------------
(* Properties of the SpatialHash *)

Count(x, s) == Cardinality({i \in DOMAIN s : s[i] = x})
Bucket(c) == IF c \in DOMAIN hash_table THEN hash_table[c] ELSE <<>>
Buckets(e) == {c \in DOMAIN hash_table : e \in Range(hash_table[c])}

\* The rectangle lies inside the playfield.
Inside(r) ==
    /\ 0 <= left(r) /\ right(r) <= SCREEN_WIDTH
    /\ 0 <= top(r) /\ bottom(r) <= SCREEN_HEIGHT

\* The rectangle meets the playfield.
Meets(r) ==
    /\ left(r) <= SCREEN_WIDTH /\ right(r) >= 0
    /\ top(r) <= SCREEN_HEIGHT /\ bottom(r) >= 0

PartlyOff(r) == Meets(r) /\ ~Inside(r)

\* The cells between the floors of the edges.
FloorSpan(r, cs) ==
    { <<cx, cy>> : cx \in (left(r) \div cs)..(right(r) \div cs),
                   cy \in (top(r) \div cs)..(bottom(r) \div cs) }

\* The rectangle has a point in the square of cell c.
CellOverlap(r, c, cs) ==
    /\ left(r) <= c[1] * cs + cs - 1 /\ right(r) >= c[1] * cs
    /\ top(r) <= c[2] * cs + cs - 1 /\ bottom(r) >= c[2] * cs

\* C8: an inserted entity whose rectangle lies inside the playfield is in the
\* bucket of every cell between the floors of its edges, once per insert,
\* and in no other bucket; a query with another probe that overlaps one of
\* those cells returns it.
C8_MultiCellSpan ==
    /\ \A e \in Ent : Inside(rect[e]) =>
          \A c \in DOMAIN hash_table \cup FloorSpan(rect[e], cell_size) :
             Count(e, Bucket(c)) =
                IF c \in FloorSpan(rect[e], cell_size) THEN Count(e, hist) ELSE 0
    /\ op = "query" =>
          \A e \in Range(hist) \ {args[1]} :
             ( /\ Inside(rect[e])
               /\ \E c \in FloorSpan(rect[e], cell_size) :
                     CellOverlap(rect[args[1]], c, cell_size) )
             => e \in ret

\* A probe in a corner cell other than the first finds an entity that spans
\* three by three cells.
C8_Witness ==
    /\ op = "query"
    /\ \E e \in ret :
          /\ Inside(rect[e])
          /\ Cardinality(FloorSpan(rect[e], cell_size)) = 9
          /\ Cardinality(_get_cells(rect[args[1]], cell_size)) = 1
          /\ <<left(rect[e]) \div cell_size, top(rect[e]) \div cell_size>>
                \notin _get_cells(rect[args[1]], cell_size)

\* C9: every bucket key lies in 0..floor(SCREEN_WIDTH / cell_size) by
\* 0..floor(SCREEN_HEIGHT / cell_size), whatever the coordinates of the
\* entities inserted.
C9_KeysInRange ==
    \A c \in DOMAIN hash_table :
        /\ 0 <= c[1] /\ c[1] <= SCREEN_WIDTH \div cell_size
        /\ 0 <= c[2] /\ c[2] <= SCREEN_HEIGHT \div cell_size

\* An entity with a negative edge and one with an edge beyond the screen
\* are both in the index.
C9_Witness ==
    /\ \E e \in Ent : Buckets(e) # {} /\ (left(rect[e]) < 0 \/ top(rect[e]) < 0)
    /\ \E e \in Ent : Buckets(e) # {}
          /\ (right(rect[e]) > SCREEN_WIDTH \/ bottom(rect[e]) > SCREEN_HEIGHT)

\* C10: an inserted entity that extends past an edge of the playfield and
\* still meets it is in at least one bucket, and a probe inside the
\* playfield that overlaps it receives it as a candidate.
C10_PartlyOffscreenKept ==
    /\ \A e \in Range(hist) : PartlyOff(rect[e]) => Buckets(e) # {}
    /\ op = "query" =>
          \A e \in Range(hist) \ {args[1]} :
             ( /\ PartlyOff(rect[e])
               /\ Inside(rect[args[1]])
               /\ colliderect(rect[args[1]], rect[e]) )
             => e \in ret

\* An on-screen probe receives an entity that reaches past the top-left
\* corner of the playfield.
C10_Witness ==
    /\ op = "query"
    /\ Inside(rect[args[1]])
    /\ \E e \in ret :
          /\ PartlyOff(rect[e])
          /\ left(rect[e]) < 0
          /\ colliderect(rect[args[1]], rect[e])

\* ... and one that reaches past the bottom-right corner.
C10_WitnessBeyond ==
    /\ op = "query"
    /\ Inside(rect[args[1]])
    /\ \E e \in ret :
          /\ PartlyOff(rect[e])
          /\ right(rect[e]) > SCREEN_WIDTH
          /\ colliderect(rect[args[1]], rect[e])

---------------------------------------------------------------------------
(* OptimizedCollisionDetector.  A group is a set of entities; a group and   *)
(* a candidate set are walked in ascending order of id.                     *)

RECURSIVE Order(_)
Order(S) ==
    IF S = {} THEN <<>>
    ELSE LET m == CHOOSE x \in S : \A y \in S : x <= y
         IN  <<m>> \o Order(S \ {m})

\* The collided argument of a query: None, or a callable of the caller.
\* Never is lambda a, b: False; Faulty returns True and raises when its
\* second argument is sprite 3.
NoPredicate == "None"
Never == "never"
Faulty == "faulty"
FaultyOn(sprite2) == sprite2 = 3
Predicates == {NoPredicate, Never, Faulty}

\* The value of a custom predicate on a pair, where it returns.
Holds(collided, sprite1, sprite2) == collided = Faulty

\* The exact test of a pair the cache does not resolve: [raised, value].
\* collided(sprite1, sprite2) when a predicate is given, else
\* sprite1.rect.colliderect(sprite2.rect); an exception of the predicate is
\* not caught.
exact_testMasked(collided, sprite1, sprite2, rc) ==
    IF collided = NoPredicate
    THEN [raised |-> FALSE, value |-> colliderect(rc[sprite1], rc[sprite2])]
    ELSE IF collided = Faulty /\ FaultyOn(sprite2)
    THEN [raised |-> FALSE, value |-> FALSE]
    ELSE [raised |-> FALSE, value |-> Holds(collided, sprite1, sprite2)]

exact_test(collided, sprite1, sprite2, rc) ==
    IF collided = NoPredicate
    THEN [raised |-> FALSE, value |-> colliderect(rc[sprite1], rc[sprite2])]
    ELSE IF collided = Faulty /\ FaultyOn(sprite2)
    THEN [raised |-> TRUE, value |-> FALSE]
    ELSE [raised |-> FALSE, value |-> Holds(collided, sprite1, sprite2)]

\* for sprite in group2: self.spatial_hash.insert(sprite), on a cleared table
RECURSIVE insert_all(_, _, _, _)
insert_all(ht, sprites, rc, cs) ==
    IF sprites = <<>> THEN ht
    ELSE insert_all(insert(ht, Head(sprites), rc[Head(sprites)], cs),
                    Tail(sprites), rc, cs)

rebuildKeep(ht, group, rc, cs) == insert_all(ht, Order(group), rc, cs)

rebuild(ht, group, rc, cs) == insert_all(EmptyTable, Order(group), rc, cs)

\* The state of a scan, st: [c, hits, kill1, kill2, stats, failed]: the
\* cache, the hits so far, the two removal lists, the counters, and whether
\* the predicate has raised (the scan then stops where it is).
NewScan(c, stats0) ==
    [c |-> c, hits |-> NoCache, kill1 |-> <<>>, kill2 |-> <<>>,
     stats |-> stats0, failed |-> FALSE]

\* One candidate of the scan: the check is counted, the cache is looked up,
\* on a miss the exact test runs and its result is cached, then the hit is
\* recorded and the sprites are marked for removal.
resolveEager(st, use_cache, maxsz, rc, sprite1, sprite2, dokill1, dokill2, collided) ==
    LET looked == IF use_cache THEN get(st.c, sprite1, sprite2, rc)
                  ELSE [c |-> st.c, result |-> None]
        cached == looked.result # None
        tested == IF cached
                  THEN [raised |-> FALSE, value |-> CHOOSE b \in looked.result : TRUE]
                  ELSE exact_test(collided, sprite1, sprite2, rc)
        stats1 == [st.stats EXCEPT !.total_checks = @ + 1,
                                   !.cache_hits = IF cached THEN @ + 1 ELSE @]
        c2 == IF ~cached /\ use_cache
              THEN put(looked.c, sprite1, sprite2, tested.value, rc, maxsz)
              ELSE looked.c
    IN  IF st.failed \/ sprite1 \in Range(st.kill1) \/ sprite2 \in Range(st.kill2)
        THEN st
        ELSE IF tested.raised
        THEN [st EXCEPT !.c = looked.c, !.stats = stats1, !.failed = TRUE]
        ELSE IF tested.value
        THEN [c |-> c2,
              hits |-> Set(st.hits, sprite1,
                           Append(IF sprite1 \in DOMAIN st.hits
                                  THEN st.hits[sprite1] ELSE <<>>, sprite2)),
              kill1 |-> IF dokill1 /\ sprite1 \notin Range(st.kill1)
                        THEN Append(st.kill1, sprite1) ELSE st.kill1,
              kill2 |-> IF dokill2 /\ sprite2 \notin Range(st.kill2)
                        THEN Append(st.kill2, sprite2) ELSE st.kill2,
              stats |-> [stats1 EXCEPT !.actual_collisions = @ + 1],
              failed |-> FALSE]
        ELSE [st EXCEPT !.c = c2, !.stats = stats1]

resolve(st, use_cache, maxsz, rc, sprite1, sprite2, dokill1, dokill2, collided) ==
    LET looked == IF use_cache THEN get(st.c, sprite1, sprite2, rc)
                  ELSE [c |-> st.c, result |-> None]
        cached == looked.result # None
        tested == IF cached
                  THEN [raised |-> FALSE, value |-> CHOOSE b \in looked.result : TRUE]
                  ELSE exact_test(collided, sprite1, sprite2, rc)
        stats1 == [st.stats EXCEPT !.total_checks = @ + 1,
                                   !.cache_hits = IF cached THEN @ + 1 ELSE @]
        c2 == IF ~cached /\ use_cache
              THEN put(looked.c, sprite1, sprite2, tested.value, rc, maxsz)
              ELSE looked.c
    IN  IF st.failed
        THEN st
        ELSE IF tested.raised
        THEN [st EXCEPT !.c = looked.c, !.stats = stats1, !.failed = TRUE]
        ELSE IF tested.value
        THEN [c |-> c2,
              hits |-> Set(st.hits, sprite1,
                           Append(IF sprite1 \in DOMAIN st.hits
                                  THEN st.hits[sprite1] ELSE <<>>, sprite2)),
              kill1 |-> IF dokill1 /\ sprite1 \notin Range(st.kill1)
                        THEN Append(st.kill1, sprite1) ELSE st.kill1,
              kill2 |-> IF dokill2 /\ sprite2 \notin Range(st.kill2)
                        THEN Append(st.kill2, sprite2) ELSE st.kill2,
              stats |-> [stats1 EXCEPT !.actual_collisions = @ + 1],
              failed |-> FALSE]
        ELSE [st EXCEPT !.c = c2, !.stats = stats1]

\* for sprite2 in candidates
RECURSIVE scan_candidates(_, _, _, _, _, _, _, _, _)
scan_candidates(st, use_cache, maxsz, rc, sprite1, cands, dokill1, dokill2, collided) ==
    IF cands = <<>> THEN st
    ELSE scan_candidates(
            resolve(st, use_cache, maxsz, rc, sprite1, Head(cands),
                    dokill1, dokill2, collided),
            use_cache, maxsz, rc, sprite1, Tail(cands), dokill1, dokill2, collided)

\* One sprite of group1: the query is counted, then its candidates are
\* scanned.
scan_sprite(st, use_cache, maxsz, rc, cs, ht, sprite1, dokill1, dokill2, collided) ==
    IF st.failed THEN st
    ELSE scan_candidates(
            [st EXCEPT !.stats.spatial_hash_queries = @ + 1],
            use_cache, maxsz, rc, sprite1,
            Order(query(ht, sprite1, rc[sprite1], cs)), dokill1, dokill2, collided)

\* for sprite1 in group1
RECURSIVE scan_group(_, _, _, _, _, _, _, _, _, _)
scan_group(st, use_cache, maxsz, rc, cs, ht, sprites, dokill1, dokill2, collided) ==
    IF sprites = <<>> THEN st
    ELSE scan_group(
            scan_sprite(st, use_cache, maxsz, rc, cs, ht, Head(sprites),
                        dokill1, dokill2, collided),
            use_cache, maxsz, rc, cs, ht, Tail(sprites), dokill1, dokill2, collided)

\* The result of a query: [ht, c, stats, failed, hits, killed]: the index,
\* the cache and the counters after the call, whether it ended with the
\* exception of the predicate, the hits (a mapping for the group query, a
\* list for the single query), and the sprites kill() was called on, in
\* order of the calls: none when the scan did not complete.

\* OptimizedCollisionDetector.groupcollide_optimized
groupcollide_optimizedEarlyReturn(use_cache, c, maxsz, cs, ht0, rc, stats0, group1, group2, dokill1, dokill2, collided) ==
    LET ht == IF group1 = {} THEN ht0 ELSE rebuild(ht0, group2, rc, cs)
        st == scan_group(NewScan(c, stats0), use_cache, maxsz, rc, cs, ht,
                         Order(group1), dokill1, dokill2, collided)
    IN  [ht |-> ht, c |-> st.c, stats |-> st.stats, failed |-> st.failed,
         hits |-> st.hits,
         killed |-> IF st.failed THEN <<>> ELSE st.kill1 \o st.kill2]

groupcollide_optimizedFreshCache(use_cache, c, maxsz, cs, ht0, rc, stats0, group1, group2, dokill1, dokill2, collided) ==
    LET ht == rebuild(ht0, group2, rc, cs)
        st == scan_group(NewScan(NewCache, stats0), use_cache, maxsz, rc, cs, ht,
                         Order(group1), dokill1, dokill2, collided)
    IN  [ht |-> ht, c |-> st.c, stats |-> st.stats, failed |-> st.failed,
         hits |-> st.hits,
         killed |-> IF st.failed THEN <<>> ELSE st.kill1 \o st.kill2]

groupcollide_optimized(use_cache, c, maxsz, cs, ht0, rc, stats0, group1, group2, dokill1, dokill2, collided) ==
    LET ht == rebuild(ht0, group2, rc, cs)
        st == scan_group(NewScan(c, stats0), use_cache, maxsz, rc, cs, ht,
                         Order(group1), dokill1, dokill2, collided)
    IN  [ht |-> ht, c |-> st.c, stats |-> st.stats, failed |-> st.failed,
         hits |-> st.hits,
         killed |-> IF st.failed THEN <<>> ELSE st.kill1 \o st.kill2]

\* The state of the scan of a single query: [c, collisions, kill, stats,
\* failed].
NewSingleScan(c, stats0) ==
    [c |-> c, collisions |-> <<>>, kill |-> <<>>, stats |-> stats0,
     failed |-> FALSE]

\* One candidate of the scan of spritecollide_optimized; sprites_to_kill is
\* appended to at every hit.
resolve_candidate(st, use_cache, maxsz, rc, sprite, candidate, dokill, collided) ==
    LET looked == IF use_cache THEN get(st.c, sprite, candidate, rc)
                  ELSE [c |-> st.c, result |-> None]
        cached == looked.result # None
        tested == IF cached
                  THEN [raised |-> FALSE, value |-> CHOOSE b \in looked.result : TRUE]
                  ELSE exact_test(collided, sprite, candidate, rc)
        stats1 == [st.stats EXCEPT !.total_checks = @ + 1,
                                   !.cache_hits = IF cached THEN @ + 1 ELSE @]
        c2 == IF ~cached /\ use_cache
              THEN put(looked.c, sprite, candidate, tested.value, rc, maxsz)
              ELSE looked.c
    IN  IF st.failed
        THEN st
        ELSE IF tested.raised
        THEN [st EXCEPT !.c = looked.c, !.stats = stats1, !.failed = TRUE]
        ELSE IF tested.value
        THEN [c |-> c2,
              collisions |-> Append(st.collisions, candidate),
              kill |-> IF dokill THEN Append(st.kill, candidate) ELSE st.kill,
              stats |-> [stats1 EXCEPT !.actual_collisions = @ + 1],
              failed |-> FALSE]
        ELSE [st EXCEPT !.c = c2, !.stats = stats1]

\* for candidate in candidates
RECURSIVE scan_single(_, _, _, _, _, _, _, _)
scan_single(st, use_cache, maxsz, rc, sprite, cands, dokill, collided) ==
    IF cands = <<>> THEN st
    ELSE scan_single(
            resolve_candidate(st, use_cache, maxsz, rc, sprite, Head(cands),
                              dokill, collided),
            use_cache, maxsz, rc, sprite, Tail(cands), dokill, collided)

\* OptimizedCollisionDetector.spritecollide_optimized
spritecollide_optimizedNoCount(use_cache, c, maxsz, cs, ht0, rc, stats0, sprite, group, dokill, collided) ==
    LET ht == rebuild(ht0, group, rc, cs)
        st == scan_single(NewSingleScan(c, stats0),
                          use_cache, maxsz, rc, sprite,
                          Order(query(ht, sprite, rc[sprite], cs)), dokill, collided)
    IN  [ht |-> ht, c |-> st.c, stats |-> st.stats, failed |-> st.failed,
         hits |-> st.collisions,
         killed |-> IF st.failed THEN <<>> ELSE st.kill]

spritecollide_optimizedMembersOnly(use_cache, c, maxsz, cs, ht0, rc, stats0, sprite, group, dokill, collided) ==
    LET ht == rebuild(ht0, group, rc, cs)
        st == scan_single(NewSingleScan(c, [stats0 EXCEPT !.spatial_hash_queries = @ + 1]),
                          use_cache, maxsz, rc, sprite,
                          Order(query(ht, sprite, rc[sprite], cs)), dokill, collided)
    IN  [ht |-> ht, c |-> st.c, stats |-> st.stats,
         failed |-> st.failed \/ sprite \notin group,
         hits |-> st.collisions,
         killed |-> IF st.failed \/ sprite \notin group THEN <<>> ELSE st.kill]

spritecollide_optimized(use_cache, c, maxsz, cs, ht0, rc, stats0, sprite, group, dokill, collided) ==
    LET ht == rebuild(ht0, group, rc, cs)
        st == scan_single(NewSingleScan(c, [stats0 EXCEPT !.spatial_hash_queries = @ + 1]),
                          use_cache, maxsz, rc, sprite,
                          Order(query(ht, sprite, rc[sprite], cs)), dokill, collided)
    IN  [ht |-> ht, c |-> st.c, stats |-> st.stats, failed |-> st.failed,
         hits |-> st.collisions,
         killed |-> IF st.failed THEN <<>> ELSE st.kill]

---------------------------------------------------------------------------
(* In the actions the result of a call is bound once, as the one element    *)
(* of a singleton set.                                                      *)
(* A detector with use_cache=True, two groups of the caller, entities that  *)
(* move between the calls.  hist is [moves, fresh, brute, plain, cands]:    *)
(* the moves made so far, whether the cache was empty when the last query   *)
(* began, the pairs a brute-force pairwise test of its two groups gives,    *)
(* what a detector with use_cache=False returns on the same inputs, and the *)
(* candidates the index gave for each sprite scanned.  The caller of these  *)
(* runs resets the counters before each query, so stats holds the counts of *)
(* the last query.                                                          *)

MaxMoves == 2        \* entity moves in a run of the detector

\* Positions of the entities of the detector runs: two on-screen positions
\* ten pixels apart, on either side of a cell boundary, and one fully
\* off-screen.
DetPositions == { <<60, 0>>, <<70, 0>>, <<-100, -100>> }

\* Entities with an odd id have BULLET_SIZE, the others the size of a
\* normal enemy.
SizeOf(e) == IF e % 2 = 1 THEN <<5, 10>> ELSE <<40, 30>>

Group(name) == IF name = "A" THEN groupA ELSE groupB

\* The pairs (a, b) with b in the hit list of a.
HitPairs(hits) == UNION { { <<a, b>> : b \in Range(hits[a]) } : a \in DOMAIN hits }

\* Brute-force pairwise testing of two groups.
BrutePairs(group1, group2, rc) ==
    { <<a, b>> \in group1 \X group2 : a # b /\ colliderect(rc[a], rc[b]) }

Init ==
    /\ cell_size = DEFAULT_CELL_SIZE
    /\ hash_table = EmptyTable
    /\ \E pos \in [Ent -> DetPositions] :
          rect = [e \in Ent |-> Rect(pos[e][1], pos[e][2], SizeOf(e)[1], SizeOf(e)[2])]
    /\ cache = NoCache
    /\ access_order = <<>>
    /\ max_size = DEFAULT_MAX_SIZE
    /\ groupA \in SUBSET Ent
    /\ groupB \in SUBSET Ent
    /\ stats = ZeroStats
    /\ game = NoGame
    /\ op = "init"
    /\ args = <<>>
    /\ ret = <<>>
    /\ hist = [moves |-> 0, fresh |-> TRUE, brute |-> {}, plain |-> {}, cands |-> <<>>]

\* reset_stats(), then groupcollide_optimized(g1, g2, dokill1, dokill2)
GroupCollide(g1, g2, dokill1, dokill2) ==
    \E r \in { groupcollide_optimized(TRUE,
                    [cache |-> cache, access_order |-> access_order], max_size,
                    cell_size, hash_table, rect, ZeroStats, Group(g1), Group(g2),
                    dokill1, dokill2, NoPredicate) },
       plain \in { groupcollide_optimized(FALSE, NewCache, max_size, cell_size,
                    hash_table, rect, ZeroStats, Group(g1), Group(g2),
                    dokill1, dokill2, NoPredicate) } :
      \E killed \in { Range(r.killed) } :
        /\ hash_table' = r.ht
        /\ cache' = r.c.cache
        /\ access_order' = r.c.access_order
        /\ groupA' = groupA \ killed
        /\ groupB' = groupB \ killed
        /\ stats' = r.stats
        /\ op' = "groupcollide"
        /\ args' = <<g1, g2, dokill1, dokill2>>
        /\ ret' = r.hits
        /\ hist' = [moves |-> hist.moves,
                    fresh |-> cache = NoCache,
                    brute |-> BrutePairs(Group(g1), Group(g2), rect),
                    plain |-> HitPairs(plain.hits),
                    cands |-> [a \in Group(g1) |-> query(r.ht, a, rect[a], cell_size)]]
        /\ UNCHANGED <<game, cell_size, rect, max_size>>

\* reset_stats(), then spritecollide_optimized(e, g, dokill)
SpriteCollide(e, g, dokill) ==
    \E r \in { spritecollide_optimized(TRUE,
                    [cache |-> cache, access_order |-> access_order], max_size,
                    cell_size, hash_table, rect, ZeroStats, e, Group(g), dokill,
                    NoPredicate) },
       plain \in { spritecollide_optimized(FALSE, NewCache, max_size, cell_size,
                    hash_table, rect, ZeroStats, e, Group(g), dokill,
                    NoPredicate) } :
      \E killed \in { Range(r.killed) } :
        /\ hash_table' = r.ht
        /\ cache' = r.c.cache
        /\ access_order' = r.c.access_order
        /\ groupA' = groupA \ killed
        /\ groupB' = groupB \ killed
        /\ stats' = r.stats
        /\ op' = "spritecollide"
        /\ args' = <<e, g, dokill>>
        /\ ret' = r.hits
        /\ hist' = [moves |-> hist.moves,
                    fresh |-> cache = NoCache,
                    brute |-> BrutePairs({e}, Group(g), rect),
                    plain |-> { <<e, b>> : b \in Range(plain.hits) },
                    cands |-> [a \in {e} |-> query(r.ht, a, rect[a], cell_size)]]
        /\ UNCHANGED <<game, cell_size, rect, max_size>>

\* OptimizedCollisionDetector.clear_cache
ClearCache ==
    /\ cache' = NoCache
    /\ access_order' = <<>>
    /\ op' = "clear_cache"
    /\ args' = <<>>
    /\ ret' = <<>>
    /\ UNCHANGED <<game, cell_size, hash_table, rect, max_size, groupA, groupB, stats,
                   hist>>

\* The caller moves an entity: rect.x, rect.y = p.
MoveEntity(e, p) ==
    /\ hist.moves < MaxMoves
    /\ Pos(rect[e]) # p
    /\ rect' = [rect EXCEPT ![e] = Rect(p[1], p[2], rect[e].w, rect[e].h)]
    /\ op' = "move"
    /\ args' = <<e>>
    /\ ret' = <<>>
    /\ hist' = [hist EXCEPT !.moves = hist.moves + 1]
    /\ UNCHANGED <<game, cell_size, hash_table, cache, access_order, max_size,
                   groupA, groupB, stats>>

\* The queries of these runs remove nothing (dokill=False, the default).
Next ==
    \/ \E g1, g2 \in {"A", "B"} : GroupCollide(g1, g2, FALSE, FALSE)
    \/ \E e \in Ent, g \in {"A", "B"} : SpriteCollide(e, g, FALSE)
    \/ ClearCache
    \/ \E e \in Ent, p \in DetPositions : MoveEntity(e, p)

Spec == Init /\ [][Next]_vars

---------------------------------------------------------------------------
(* Properties of the detector *)

\* The pairs a query returned.
Returned ==
    IF op = "groupcollide" THEN HitPairs(ret)
    ELSE { <<args[1], b>> : b \in Range(ret) }

\* C1: on a fresh detector the pairs groupcollide_optimized returns are the
\* pairs the brute-force pairwise test of the two groups gives.
C1_Exactness ==
    (op = "groupcollide" /\ hist.fresh) => HitPairs(ret) = hist.brute

\* What the code does satisfy: the pairs returned are the brute-force pairs of
\* rectangles that both meet the playfield.
C1_ExactOnPlayfield ==
    (op = "groupcollide" /\ hist.fresh) =>
        HitPairs(ret) = { pr \in hist.brute : Meets(rect[pr[1]]) /\ Meets(rect[pr[2]]) }

\* C2: every query of the detector with use_cache=True returns the hits a
\* detector with use_cache=False returns on the same inputs.
C2_CacheTransparent ==
    op \in {"groupcollide", "spritecollide"} => Returned = hist.plain

\* C7: query(e) never contains e.
C7_SelfExclusion ==
    op = "query" => args[1] \notin ret

\* The probe is in a bucket of the index queried, and the query returned
\* another entity of that bucket.
C7_Witness ==
    /\ op = "query"
    /\ ret # {}
    /\ \E c \in Buckets(args[1]) \cap _get_cells(rect[args[1]], cell_size) :
          Range(hash_table[c]) \cap ret # {}

\* C7 in the detector: no sprite is among its own candidates or in its own
\* hit list, also when it is a member of the group indexed.
C7_DetectorNoSelfHit ==
    /\ op = "groupcollide" =>
          \A a \in DOMAIN hist.cands :
             /\ a \notin hist.cands[a]
             /\ a \in DOMAIN ret => a \notin Range(ret[a])
    /\ op = "spritecollide" =>
          /\ args[1] \notin hist.cands[args[1]]
          /\ args[1] \notin Range(ret)

\* groupcollide_optimized(G, G) with two members that hit each other.
C7_DetectorWitness ==
    /\ op = "groupcollide"
    /\ args[1] = args[2]
    /\ Cardinality(DOMAIN ret) > 1

---------------------------------------------------------------------------
(* The detector with removals, custom predicates and counters: the global   *)
(* detector (cell size 64, use_cache=True, cache of 1000) queried by a       *)
(* caller that holds two groups of three sprites that do not move.  hist is  *)
(* [calls, fresh, again, first, second, indexed, cands] and describes the    *)
(* last query: the calls made so far, whether the cache was empty when it    *)
(* began, whether it repeated the call before it (a query that returned,     *)
(* with the same arguments and the groups as they were),                     *)
(* the members of its first group (the sprite of a single query) and         *)
(* of its second group at that time, the sprites the index held before it,   *)
(* and the candidates the index gave for each sprite of the first group.     *)
(* ret is [failed, value]: whether the call ended with the exception of the  *)
(* predicate, and what it returned otherwise.                                *)

MaxCalls == 2        \* calls of the detector in a run

\* Sprites 1 and 3 are bullets, sprite 2 is an enemy.
Sprites == {1, 2, 3}

\* Where the three sprites are, as <<bullet 1, enemy 2, bullet 3>>.  In the
\* first scene the enemy covers the cells (0, 0) and (1, 0) and both bullets
\* overlap it, bullet 1 over both cells.  In the second bullet 1 touches the
\* enemy's left edge.  In the third the enemy is partly above the playfield,
\* bullet 1 is wholly above it and inside the enemy's rectangle, and bullet 3
\* overlaps the enemy on the playfield.
Scenes ==
    { << <<60, 0>>, <<60, 0>>, <<70, 0>> >>,
      << <<55, 0>>, <<60, 0>>, <<70, 0>> >>,
      << <<62, -15>>, <<60, -20>>, <<70, 0>> >> }

\* The groups of the caller at the start: bullets and enemies, or two groups
\* that share the enemy.
StartGroups == { <<{1, 3}, {2}>>, <<{1, 2}, {2, 3}>> }

Returns(value) == [failed |-> FALSE, value |-> value]
Raises == [failed |-> TRUE, value |-> <<>>]

Cands(ht, first) == [a \in first |-> query(ht, a, rect[a], cell_size)]

Indexed(ht) == UNION { Range(ht[c]) : c \in DOMAIN ht }

InitDet ==
    /\ cell_size = DEFAULT_CELL_SIZE
    /\ hash_table = EmptyTable
    /\ \E pos \in Scenes :
          rect = [e \in Sprites |->
                     Rect(pos[e][1], pos[e][2], SizeOf(e)[1], SizeOf(e)[2])]
    /\ cache = NoCache
    /\ access_order = <<>>
    /\ max_size = DEFAULT_MAX_SIZE
    /\ \E g \in StartGroups : groupA = g[1] /\ groupB = g[2]
    /\ stats = ZeroStats
    /\ game = NoGame
    /\ op = "init"
    /\ args = <<>>
    /\ ret = Returns(<<>>)
    /\ hist = [calls |-> 0, fresh |-> TRUE, again |-> FALSE, first |-> {},
               second |-> {}, indexed |-> {}, cands |-> <<>>]

\* groupcollide_optimized(g1, g2, dokill1, dokill2, collided); sprite.kill()
\* takes the sprite out of every group it is in.
QueryGroups(g1, g2, dokill1, dokill2, collided) ==
    /\ hist.calls < MaxCalls
    /\ \E r \in { groupcollide_optimized(TRUE,
                    [cache |-> cache, access_order |-> access_order], max_size,
                    cell_size, hash_table, rect, stats, Group(g1), Group(g2),
                    dokill1, dokill2, collided) } :
        /\ hash_table' = r.ht
        /\ cache' = r.c.cache
        /\ access_order' = r.c.access_order
        /\ groupA' = groupA \ Range(r.killed)
        /\ groupB' = groupB \ Range(r.killed)
        /\ stats' = r.stats
        /\ op' = "groupcollide"
        /\ args' = <<g1, g2, dokill1, dokill2, collided>>
        /\ ret' = IF r.failed THEN Raises ELSE Returns(r.hits)
        /\ hist' = [calls |-> hist.calls + 1,
                    fresh |-> cache = NoCache,
                    again |-> /\ op = "groupcollide" /\ ~ret.failed
                              /\ args = <<g1, g2, dokill1, dokill2, collided>>
                              /\ hist.first = Group(g1)
                              /\ hist.second = Group(g2),
                    first |-> Group(g1),
                    second |-> Group(g2),
                    indexed |-> Indexed(hash_table),
                    cands |-> Cands(r.ht, Group(g1))]
        /\ UNCHANGED <<game, cell_size, rect, max_size>>

\* spritecollide_optimized(e, g, dokill, collided)
QuerySprite(e, g, dokill, collided) ==
    /\ hist.calls < MaxCalls
    /\ \E r \in { spritecollide_optimized(TRUE,
                    [cache |-> cache, access_order |-> access_order], max_size,
                    cell_size, hash_table, rect, stats, e, Group(g), dokill,
                    collided) } :
        /\ hash_table' = r.ht
        /\ cache' = r.c.cache
        /\ access_order' = r.c.access_order
        /\ groupA' = groupA \ Range(r.killed)
        /\ groupB' = groupB \ Range(r.killed)
        /\ stats' = r.stats
        /\ op' = "spritecollide"
        /\ args' = <<e, g, dokill, collided>>
        /\ ret' = IF r.failed THEN Raises ELSE Returns(r.hits)
        /\ hist' = [calls |-> hist.calls + 1,
                    fresh |-> cache = NoCache,
                    again |-> /\ op = "spritecollide" /\ ~ret.failed
                              /\ args = <<e, g, dokill, collided>>
                              /\ hist.second = Group(g),
                    first |-> {e},
                    second |-> Group(g),
                    indexed |-> Indexed(hash_table),
                    cands |-> Cands(r.ht, {e})]
        /\ UNCHANGED <<game, cell_size, rect, max_size>>

\* OptimizedCollisionDetector.reset_stats
reset_statsClearsCache(c, ht, st) == [c |-> NewCache, ht |-> ht, stats |-> ZeroStats]

reset_stats(c, ht, st) == [c |-> c, ht |-> ht, stats |-> ZeroStats]

ResetStats ==
    /\ hist.calls < MaxCalls
    /\ \E r \in { reset_stats([cache |-> cache, access_order |-> access_order],
                           hash_table, stats) } :
        /\ cache' = r.c.cache
        /\ access_order' = r.c.access_order
        /\ hash_table' = r.ht
        /\ stats' = r.stats
        /\ op' = "reset_stats"
        /\ args' = <<>>
        /\ ret' = Returns(<<>>)
        /\ hist' = [hist EXCEPT !.calls = @ + 1]
        /\ UNCHANGED <<game, cell_size, rect, max_size, groupA, groupB>>

\* OptimizedCollisionDetector.get_stats: a copy of the counters.
GetStats ==
    /\ hist.calls < MaxCalls
    /\ op' = "get_stats"
    /\ args' = <<>>
    /\ ret' = Returns(stats)
    /\ hist' = [hist EXCEPT !.calls = @ + 1]
    /\ UNCHANGED <<game, cell_size, hash_table, rect, cache, access_order, max_size,
                   groupA, groupB, stats>>

\* OptimizedCollisionDetector.clear_cache
ClearDetCache ==
    /\ hist.calls < MaxCalls
    /\ cache' = NoCache
    /\ access_order' = <<>>
    /\ op' = "clear_cache"
    /\ args' = <<>>
    /\ ret' = Returns(<<>>)
    /\ hist' = [hist EXCEPT !.calls = @ + 1]
    /\ UNCHANGED <<game, cell_size, hash_table, rect, max_size, groupA, groupB, stats>>

\* The group queries of these runs are between the two groups, either way
\* round.
NextDet ==
    \/ \E g1, g2 \in {"A", "B"}, dokill1, dokill2 \in BOOLEAN, collided \in Predicates :
          g1 # g2 /\ QueryGroups(g1, g2, dokill1, dokill2, collided)
    \/ \E e \in Sprites, g \in {"A", "B"}, dokill \in BOOLEAN, collided \in Predicates :
          QuerySprite(e, g, dokill, collided)
    \/ ResetStats
    \/ GetStats
    \/ ClearDetCache

SpecDet == InitDet /\ [][NextDet]_vars

---------------------------------------------------------------------------
(* Properties of the queries *)

IsQuery == op \in {"groupcollide", "spritecollide"}

\* The collided argument of the last query.
Collided == args[Len(args)]

\* The pairs the last query returned.
DetReturned ==
    IF op = "groupcollide" THEN HitPairs(ret.value)
    ELSE { <<args[1], b>> : b \in Range(ret.value) }

\* The pairs (a, b) with b a candidate of a in the last query.
CandPairs == UNION { { <<a, b>> : b \in hist.cands[a] } : a \in DOMAIN hist.cands }

\* The rectangle test with the four inequalities non-strict.
Touches(a, b) ==
    /\ a.x + a.w >= b.x
    /\ a.x <= b.x + b.w
    /\ a.y + a.h >= b.y
    /\ a.y <= b.y + b.h

\* The rectangle test with the four inequalities strict.
StrictOverlap(a, b) ==
    /\ a.x + a.w > b.x
    /\ a.x < b.x + b.w
    /\ a.y + a.h > b.y
    /\ a.y < b.y + b.h

\* C11: with no custom predicate and nothing cached, a candidate pair is
\* reported as a hit exactly when its rectangles meet the test with the four
\* non-strict inequalities, so also when they only touch.
C11_TouchingCollide ==
    (IsQuery /\ Collided = NoPredicate /\ hist.fresh) =>
        \A pr \in CandPairs :
            pr \in DetReturned <=> Touches(rect[pr[1]], rect[pr[2]])

\* What the code does: the test is strict, and a pair that only touches is no
\* hit.
C11_StrictTest ==
    (IsQuery /\ Collided = NoPredicate /\ hist.fresh) =>
        \A pr \in CandPairs :
            pr \in DetReturned <=> StrictOverlap(rect[pr[1]], rect[pr[2]])

\* A query that had a touching pair among its candidates and did not report
\* it.
C11_TouchingMissed ==
    /\ IsQuery /\ Collided = NoPredicate /\ hist.fresh
    /\ \E pr \in CandPairs :
          /\ Touches(rect[pr[1]], rect[pr[2]])
          /\ ~StrictOverlap(rect[pr[1]], rect[pr[2]])
          /\ pr \notin DetReturned

\* The members of a group after the step.
GroupAfter(name) == IF name = "A" THEN groupA' ELSE groupB'

\* The sprites in the hit lists of a mapping, and of the value a query
\* returned.
HitSprites(hits) == UNION { Range(hits[a]) : a \in DOMAIN hits }

\* C12: a group query removes from its first group exactly the sprites with
\* a hit when dokill1 is set, from its second group exactly the sprites in a
\* hit list when dokill2 is set, and leaves a group whose flag is off as it
\* was; a single query does the same with its group and its flag.
C12_IdempotentRemoval ==
    [][ /\ (op' = "groupcollide" /\ ~ret'.failed) =>
             /\ GroupAfter(args'[1]) =
                   IF args'[3] THEN Group(args'[1]) \ DOMAIN ret'.value
                   ELSE Group(args'[1])
             /\ GroupAfter(args'[2]) =
                   IF args'[4] THEN Group(args'[2]) \ HitSprites(ret'.value)
                   ELSE Group(args'[2])
        /\ (op' = "spritecollide" /\ ~ret'.failed) =>
             GroupAfter(args'[2]) =
                IF args'[3] THEN Group(args'[2]) \ Range(ret'.value)
                ELSE Group(args'[2]) ]_vars

\* What the code does satisfy: the claim for two groups with no common member.
C12_DisjointGroups ==
    [][ (groupA \cap groupB = {}) =>
        /\ (op' = "groupcollide" /\ ~ret'.failed) =>
             /\ GroupAfter(args'[1]) =
                   IF args'[3] THEN Group(args'[1]) \ DOMAIN ret'.value
                   ELSE Group(args'[1])
             /\ GroupAfter(args'[2]) =
                   IF args'[4] THEN Group(args'[2]) \ HitSprites(ret'.value)
                   ELSE Group(args'[2])
        /\ (op' = "spritecollide" /\ ~ret'.failed) =>
             GroupAfter(args'[2]) =
                IF args'[3] THEN Group(args'[2]) \ Range(ret'.value)
                ELSE Group(args'[2]) ]_vars

\* The cache of the detector, as the record the operators take.
TheCache == [cache |-> cache, access_order |-> access_order]

\* C13: the hits of a group query are those of the same query made with both
\* kill flags off: a sprite marked for removal stays in its group, and among
\* the candidates, until every sprite of the first group has been scanned.
C13_DeferredRemoval ==
    [][ (op' = "groupcollide" /\ ~ret'.failed) =>
            ret'.value =
               groupcollide_optimized(TRUE, TheCache, max_size, cell_size,
                    hash_table, rect, stats, Group(args'[1]), Group(args'[2]),
                    FALSE, FALSE, args'[5]).hits ]_vars

\* A query with dokill2 set removed a sprite of the second group that is in
\* the hit lists of two sprites of the first group.
C13_Witness ==
    /\ op = "groupcollide" /\ ~ret.failed /\ args[4]
    /\ \E b \in hist.second :
          /\ b \notin groupA \cup groupB
          /\ Cardinality({ a \in DOMAIN ret.value : b \in Range(ret.value[a]) }) >= 2

\* A query with dokill1 set removed a sprite of the first group whose hit
\* list has two sprites.
C13_WitnessFirst ==
    /\ op = "groupcollide" /\ ~ret.failed /\ args[3]
    /\ \E a \in DOMAIN ret.value :
          /\ a \notin groupA \cup groupB
          /\ Len(ret.value[a]) >= 2

\* C14: the keys of the mapping have non-empty hit lists, and the hit list of
\* a key a holds every sprite of the second group whose rectangle overlaps
\* a's exactly once (default test, nothing cached).
C14_CompleteHitLists ==
    (op = "groupcollide" /\ Collided = NoPredicate /\ hist.fresh) =>
        /\ DOMAIN ret.value \subseteq hist.first
        /\ \A a \in DOMAIN ret.value :
              /\ ret.value[a] # <<>>
              /\ \A b \in hist.second \ {a} :
                    StrictOverlap(rect[a], rect[b]) => Count(b, ret.value[a]) = 1

\* What the code does satisfy: the keys are the sprites with a hit, no hit
\* list repeats a sprite, and the hit list of a key holds the overlapping
\* sprites of the second group that meet the playfield.
C14_OnPlayfield ==
    (op = "groupcollide" /\ Collided = NoPredicate /\ hist.fresh) =>
        /\ DOMAIN ret.value \subseteq hist.first
        /\ \A a \in DOMAIN ret.value :
              /\ ret.value[a] # <<>>
              /\ \A b \in hist.second \ {a} :
                    /\ Count(b, ret.value[a]) <= 1
                    /\ (StrictOverlap(rect[a], rect[b]) /\ Meets(rect[b])) =>
                          Count(b, ret.value[a]) = 1

\* A key whose hit list holds a sprite that shares two cells with it.
C14_SharedCells ==
    /\ op = "groupcollide" /\ Collided = NoPredicate /\ hist.fresh
    /\ \E a \in DOMAIN ret.value : \E b \in Range(ret.value[a]) :
          Cardinality(_get_cells(rect[a], cell_size)
                        \cap _get_cells(rect[b], cell_size)) >= 2

\* The sprites of a group that cover the cell c.
Covering(group, c) == { b \in group : c \in _get_cells(rect[b], cell_size) }

\* The cells the sprites of a group cover.
CellsOf(group) == UNION { _get_cells(rect[b], cell_size) : b \in group }

\* C15: a group query with an empty second group returns an empty mapping,
\* leaves total_checks, cache_hits and the cache as they were; with an empty
\* first group it returns an empty mapping and the index holds the sprites of
\* the second group, each in the cells it covers.
C15_EmptyGroups ==
    [][ op' = "groupcollide" =>
          /\ Group(args'[2]) = {} =>
                /\ ~ret'.failed /\ DOMAIN ret'.value = {}
                /\ stats'.total_checks = stats.total_checks
                /\ stats'.cache_hits = stats.cache_hits
                /\ cache' = cache
                /\ access_order' = access_order
          /\ Group(args'[1]) = {} =>
                /\ ~ret'.failed /\ DOMAIN ret'.value = {}
                /\ DOMAIN hash_table' = CellsOf(Group(args'[2]))
                /\ \A c \in DOMAIN hash_table' :
                      /\ Range(hash_table'[c]) = Covering(Group(args'[2]), c)
                      /\ Len(hash_table'[c]) = Cardinality(Covering(Group(args'[2]), c))
      ]_vars

\* A query with an empty first group that replaced an index holding other
\* sprites.
C15_Witness ==
    /\ op = "groupcollide"
    /\ hist.first = {} /\ hist.second # {}
    /\ hist.indexed # {}
    /\ hist.indexed \cap Indexed(hash_table) = {}
    /\ DOMAIN ret.value = {}

\* A query with an empty second group on a detector whose cache holds
\* entries, after earlier checks were counted.
C15_WitnessSecond ==
    /\ op = "groupcollide"
    /\ hist.first # {} /\ hist.second = {}
    /\ cache # NoCache
    /\ stats.total_checks > 0
    /\ DOMAIN ret.value = {}

\* C16: the candidates and the hits of a query, and the sprites in the index
\* after it, are members of the second group of that query.
C16_RebuiltFromScratch ==
    IsQuery =>
        /\ \A pr \in CandPairs : pr[2] \in hist.second
        /\ \A pr \in DetReturned : pr[2] \in hist.second
        /\ Indexed(hash_table) \subseteq hist.second

\* A query whose sprite shares a cell with a sprite that the index held
\* before the query and that is no member of the query's second group.
C16_Witness ==
    /\ IsQuery
    /\ \E a \in DOMAIN hist.cands : \E e \in hist.indexed \ hist.second :
          /\ e # a
          /\ _get_cells(rect[a], cell_size) \cap _get_cells(rect[e], cell_size) # {}

\* The same, the earlier sprite having been removed by a kill flag.
C16_WitnessKilled ==
    /\ IsQuery
    /\ \E a \in DOMAIN hist.cands : \E e \in hist.indexed \ (groupA \cup groupB) :
          /\ e # a
          /\ hist.second # {}
          /\ _get_cells(rect[a], cell_size) \cap _get_cells(rect[e], cell_size) # {}

\* C17: in a query with a custom predicate that returned on every pair, a
\* candidate pair is a hit exactly when the predicate holds of it, whatever
\* the queries made before.
C17_PredicateReplacesTest ==
    (IsQuery /\ Collided # NoPredicate /\ ~ret.failed) =>
        \A pr \in CandPairs :
            ~(Collided = Faulty /\ FaultyOn(pr[2])) =>
                (pr \in DetReturned <=> Holds(Collided, pr[1], pr[2]))

\* What the code does satisfy: the same when nothing was cached at the start
\* of the query.
C17_OnEmptyCache ==
    (IsQuery /\ Collided # NoPredicate /\ ~ret.failed /\ hist.fresh) =>
        \A pr \in CandPairs :
            ~(Collided = Faulty /\ FaultyOn(pr[2])) =>
                (pr \in DetReturned <=> Holds(Collided, pr[1], pr[2]))

\* The predicate raises on a pair of the query that the cache of the step's
\* first state does not resolve.
WillRaise ==
    /\ Collided' = Faulty
    /\ \E a \in DOMAIN hist'.cands : \E b \in hist'.cands[a] :
          /\ FaultyOn(b)
          /\ _get_cache_key(a, b, rect) \notin DOMAIN cache

\* C18: a query whose predicate raises ends with that exception, and a query
\* that ends with an exception leaves both groups as they were.
C18_FailurePropagates ==
    [][ IsQuery' =>
          /\ WillRaise => ret'.failed
          /\ ret'.failed => (groupA' = groupA /\ groupB' = groupB) ]_vars

\* The first call of a run, with a kill flag set, raised after a hit was
\* confirmed and its sprite marked for removal.
C18_Witness ==
    /\ IsQuery /\ ret.failed
    /\ hist.calls = 1
    /\ stats.actual_collisions >= 1
    /\ IF op = "groupcollide" THEN args[4] ELSE args[3]

\* What a group query without removal returns from a given state of the
\* detector and of the groups (<<>> for an exception).
Outcome(c, ht, st, group1, group2, collided) ==
    LET r == groupcollide_optimized(TRUE, c, max_size, cell_size, ht, rect, st,
                                    group1, group2, FALSE, FALSE, collided)
    IN  IF r.failed THEN Raises ELSE Returns(r.hits)

\* The outcomes of the group queries of the two groups, either way round and
\* with each predicate.
LaterHits(c, ht, st, gA, gB) ==
    { <<"A", collided, Outcome(c, ht, st, gA, gB, collided)>> : collided \in Predicates }
      \cup
    { <<"B", collided, Outcome(c, ht, st, gB, gA, collided)>> : collided \in Predicates }

\* C19: reset_stats sets the four counters to 0, get_stats returns the
\* counters; both leave the cache, the index and the groups as they were,
\* get_stats the counters too, and the hits a later query returns are those
\* it would have returned before.
C19_StatsFrame ==
    [][ (op' \in {"reset_stats", "get_stats"}) =>
          /\ op' = "reset_stats" => stats' = ZeroStats
          /\ op' = "get_stats" => (stats' = stats /\ ret' = Returns(stats))
          /\ cache' = cache
          /\ access_order' = access_order
          /\ hash_table' = hash_table
          /\ groupA' = groupA /\ groupB' = groupB /\ rect' = rect
          /\ LaterHits([cache |-> cache', access_order |-> access_order'],
                       hash_table', stats', groupA', groupB')
                = LaterHits(TheCache, hash_table, stats, groupA, groupB) ]_vars

\* reset_stats on a detector with counted checks, a filled cache and a
\* filled index.
C19_Witness ==
    /\ op = "reset_stats"
    /\ stats = ZeroStats
    /\ cache # NoCache
    /\ hash_table # EmptyTable

\* get_stats returned counters that are not all 0.
C19_WitnessGet ==
    /\ op = "get_stats"
    /\ ret.value.total_checks > 0
    /\ ret.value.actual_collisions > 0
    /\ ret.value = stats

\* C20: a single query returns the sprites of the hit list of its sprite in
\* the group query of that sprite alone against the same group, with
\* dokill1 off and the same dokill2 and predicate, from the same state; it
\* removes the same sprites and leaves the cache, the counters and the
\* index as that query does.
C20_SingleAsGroup ==
    [][ op' = "spritecollide" =>
          \E g \in { groupcollide_optimized(TRUE, TheCache, max_size, cell_size,
                        hash_table, rect, stats, {args'[1]}, Group(args'[2]),
                        FALSE, args'[3], args'[4]) } :
             /\ ret'.failed = g.failed
             /\ Range(ret'.value) =
                   IF args'[1] \in DOMAIN g.hits /\ ~g.failed
                   THEN Range(g.hits[args'[1]]) ELSE {}
             /\ groupA' = groupA \ Range(g.killed)
             /\ groupB' = groupB \ Range(g.killed)
             /\ cache' = g.c.cache
             /\ access_order' = g.c.access_order
             /\ stats' = g.stats
             /\ hash_table' = g.ht ]_vars

\* A single query with dokill set that had a cache hit and a cache miss and
\* removed two sprites.
C20_Witness ==
    /\ op = "spritecollide" /\ ~ret.failed /\ args[3]
    /\ Len(ret.value) >= 2
    /\ Range(ret.value) \cap (groupA \cup groupB) = {}
    /\ stats.cache_hits >= 1

\* The number of pairs (a, b) with b a candidate of a.
NumCands(cands) == Cardinality(UNION { { <<a, b>> : b \in cands[a] } : a \in DOMAIN cands })

C21_WitnessSingle ==
    /\ op = "spritecollide" /\ hist.again
    /\ NumCands(hist.cands) >= 1
    /\ stats.cache_hits = NumCands(hist.cands)
    /\ ret.value # <<>>

\* The last query was a single query with a sprite that is in neither group
\* of the caller, and so not in the index, and with a test that does not
\* raise.
AbsentQuery ==
    /\ op = "spritecollide"
    /\ args[1] \notin groupA \cup groupB
    /\ Collided # Faulty

\* C22 as stated: a query with a sprite that is a member of neither group is
\* not an error and returns no match.
C22_AbsentQueryEmpty ==
    AbsentQuery => ret = Returns(<<>>)

\* C22, amended: a query with a sprite that is a member of neither group is
\* not an error; it returns sprites of the group queried that share a cell
\* with the sprite, and nothing when no indexed sprite shares a cell with it.
C22_AbsentQueryReturns ==
    AbsentQuery =>
        /\ ~ret.failed
        /\ args[1] \notin hist.second
        /\ Range(ret.value) \subseteq hist.cands[args[1]]
        /\ hist.cands[args[1]] \subseteq hist.second
        /\ (\A b \in hist.second :
                _get_cells(rect[b], cell_size) \cap
                _get_cells(rect[args[1]], cell_size) = {}) => ret.value = <<>>

\* The enemy, removed from its group by an earlier query, is queried against
\* the bullets and both are returned.
C22_Witness ==
    /\ AbsentQuery
    /\ args[1] = 2
    /\ Range(ret.value) = {1, 3}

\* A query of a sprite in neither group against an empty group.
C22_WitnessEmpty ==
    /\ AbsentQuery
    /\ hist.second = {}
    /\ ret = Returns(<<>>)

---------------------------------------------------------------------------
(* The detector with a sprite whose rectangle changes size: sprite 1 is a   *)
(* bullet in group A, sprite 2 an explosion in group B.  Explosion.update   *)
(* replaces self.rect by the rectangle of the next frame's image and keeps  *)
(* its centre.  The queries are those of Spec and hist is as there.         *)

\* Sizes of the frames of the explosion (the images loaded from
\* resources/images/explosion<i>.png): the first, one a pixel larger and one
\* ten pixels larger.
FrameSizes == { <<40, 30>>, <<41, 31>>, <<50, 40>> }

\* pygame.Rect.center, and the rectangle of a given size with a given centre
\* (image.get_rect() followed by rect.center = center).
center(r) == <<r.x + (r.w \div 2), r.y + (r.h \div 2)>>
Centred(c, size) == Rect(c[1] - (size[1] \div 2), c[2] - (size[2] \div 2), size[1], size[2])

InitSize ==
    /\ cell_size = DEFAULT_CELL_SIZE
    /\ hash_table = EmptyTable
    /\ \E p \in DetPositions :
          rect = [e \in Ent |->
                    IF e = 1 THEN Rect(p[1], p[2], SizeOf(1)[1], SizeOf(1)[2])
                    ELSE Rect(20, 0, SizeOf(2)[1], SizeOf(2)[2])]
    /\ cache = NoCache
    /\ access_order = <<>>
    /\ max_size = DEFAULT_MAX_SIZE
    /\ groupA = {1}
    /\ groupB = {2}
    /\ stats = ZeroStats
    /\ game = NoGame
    /\ op = "init"
    /\ args = <<>>
    /\ ret = <<>>
    /\ hist = [moves |-> 0, fresh |-> TRUE, brute |-> {}, plain |-> {}, cands |-> <<>>]

\* Explosion.update, animated: the next frame has the given size.
ExplosionUpdate(e, size) ==
    /\ <<rect[e].w, rect[e].h>> # size
    /\ rect' = [rect EXCEPT ![e] = Centred(center(rect[e]), size)]
    /\ op' = "update"
    /\ args' = <<e>>
    /\ ret' = <<>>
    /\ UNCHANGED <<game, cell_size, hash_table, cache, access_order, max_size,
                   groupA, groupB, stats, hist>>

NextSize ==
    \/ \E g1, g2 \in {"A", "B"} : GroupCollide(g1, g2, FALSE, FALSE)
    \/ \E e \in Ent, g \in {"A", "B"} : SpriteCollide(e, g, FALSE)
    \/ ClearCache
    \/ \E size \in FrameSizes : ExplosionUpdate(2, size)

SpecSize == InitSize /\ [][NextSize]_vars

\* C24: with the default test, a candidate pair that a query resolves from
\* the cache (its key is cached when the query begins) gets the result of
\* colliderect on the two current rectangles, whatever queries and changes of
\* rectangles came before, changes of width and height at the same (x, y)
\* included.
C24_CachedEqualsExact ==
    [][ op' \in {"groupcollide", "spritecollide"} =>
          \A a \in DOMAIN hist'.cands : \A b \in hist'.cands[a] :
             _get_cache_key(a, b, rect) \in DOMAIN cache =>
                /\ cache[_get_cache_key(a, b, rect)] = colliderect(rect[a], rect[b])
                /\ (<<a, b>> \in hist'.plain) = colliderect(rect[a], rect[b])
                /\ IF op' = "groupcollide"
                   THEN (<<a, b>> \in HitPairs(ret')) = colliderect(rect[a], rect[b])
                   ELSE (b \in Range(ret')) = colliderect(rect[a], rect[b]) ]_vars


---------------------------------------------------------------------------
(* StateManager (src/state_manager.py).  A state manager is the record      *)
(* [_current_state, _previous_state, log].  log is auxiliary: the calls of  *)
(* transition_to made since the caller's last call into the game, each with *)
(* the state it was made in, the state asked for, what it returned, the     *)
(* callbacks it ran and the current and previous state before and after.    *)

GameState ==
    [INIT |-> "init", MENU |-> "menu", PLAYING |-> "playing", PAUSED |-> "paused",
     GAME_OVER |-> "game_over", INSTRUCTIONS |-> "instructions"]

States == { GameState[n] : n \in DOMAIN GameState }

\* _previous_state = None
NoState == "None"

_allowed_transitions ==
    (GameState.INIT :> {GameState.MENU, GameState.PLAYING})
    @@ (GameState.MENU :> {GameState.PLAYING, GameState.INSTRUCTIONS})
    @@ (GameState.PLAYING :> {GameState.PAUSED, GameState.GAME_OVER, GameState.MENU})
    @@ (GameState.PAUSED :> {GameState.PLAYING, GameState.MENU, GameState.GAME_OVER})
    @@ (GameState.GAME_OVER :> {GameState.MENU, GameState.PLAYING, GameState.INSTRUCTIONS})
    @@ (GameState.INSTRUCTIONS :> {GameState.MENU, GameState.GAME_OVER})

\* The states GameLogic registers an enter callback and an exit callback
\* for; the callbacks print a line and change nothing.
_state_enter_callbacks ==
    {GameState.PLAYING, GameState.PAUSED, GameState.GAME_OVER, GameState.INSTRUCTIONS}
_state_exit_callbacks == {GameState.PLAYING, GameState.PAUSED}

StateManager(initial_state) ==
    [_current_state |-> initial_state, _previous_state |-> NoState, log |-> <<>>]

can_transition_to(sm, new_state) ==
    new_state \in _allowed_transitions[sm._current_state]

is_state(sm, state) == sm._current_state = state
is_playing(sm) == sm._current_state = GameState.PLAYING
is_paused(sm) == sm._current_state = GameState.PAUSED

\* The entry of the log for a call that left the manager as after.
Logged(sm, new_state, force, result, called, after) ==
    [after EXCEPT !.log =
        Append(sm.log,
               [from |-> sm._current_state, previous |-> sm._previous_state,
                to |-> new_state, force |-> force, result |-> result,
                called |-> called, current_after |-> after._current_state,
                previous_after |-> after._previous_state])]

\* StateManager.transition_to: [sm, result].
transition_toUnchecked(sm, new_state, force) ==
    LET called == (IF sm._current_state \in _state_exit_callbacks
                   THEN << <<"exit", sm._current_state>> >> ELSE <<>>)
                  \o (IF new_state \in _state_enter_callbacks
                      THEN << <<"enter", new_state>> >> ELSE <<>>)
    IN  IF sm._current_state = new_state
        THEN [sm |-> Logged(sm, new_state, force, TRUE, <<>>, sm), result |-> TRUE]
        ELSE [sm |-> Logged(sm, new_state, force, TRUE, called,
                            [sm EXCEPT !._previous_state = sm._current_state,
                                       !._current_state = new_state]),
              result |-> TRUE]

transition_to(sm, new_state, force) ==
    LET called == (IF sm._current_state \in _state_exit_callbacks
                   THEN << <<"exit", sm._current_state>> >> ELSE <<>>)
                  \o (IF new_state \in _state_enter_callbacks
                      THEN << <<"enter", new_state>> >> ELSE <<>>)
    IN  IF sm._current_state = new_state
        THEN [sm |-> Logged(sm, new_state, force, TRUE, <<>>, sm), result |-> TRUE]
        ELSE IF ~force /\ ~can_transition_to(sm, new_state)
        THEN [sm |-> Logged(sm, new_state, force, FALSE, <<>>, sm), result |-> FALSE]
        ELSE [sm |-> Logged(sm, new_state, force, TRUE, called,
                            [sm EXCEPT !._previous_state = sm._current_state,
                                       !._current_state = new_state]),
              result |-> TRUE]

\* StateManager.toggle_pause, start_game, end_game and show_instructions.
sm_toggle_pause(sm) ==
    IF sm._current_state = GameState.PLAYING
    THEN transition_to(sm, GameState.PAUSED, FALSE)
    ELSE IF sm._current_state = GameState.PAUSED
    THEN transition_to(sm, GameState.PLAYING, FALSE)
    ELSE [sm |-> sm, result |-> FALSE]

sm_start_game(sm) == transition_to(sm, GameState.PLAYING, FALSE)
sm_end_game(sm) == transition_to(sm, GameState.GAME_OVER, FALSE)
sm_show_instructions(sm) == transition_to(sm, GameState.INSTRUCTIONS, FALSE)

---------------------------------------------------------------------------
(* ObjectPool and PoolManager (src/object_pool.py).  A pool is the record   *)
(* [kind, max_size, available_objects, active_objects, created]; an object  *)
(* is <<kind, n>>, the n-th object the pool created.                        *)

BULLET_POOL_INITIAL == 20
BULLET_POOL_MAX == 100
ENEMY_POOL_INITIAL == 15
ENEMY_POOL_MAX == 50

ObjectPool(kind, initial_size, maxsz) ==
    [kind |-> kind, initial_size |-> initial_size, max_size |-> maxsz,
     available_objects |-> [i \in 1..initial_size |-> <<kind, i>>],
     active_objects |-> <<>>,
     created |-> initial_size]

\* ObjectPool.get_object: [pool, obj], obj being None when the pool is
\* exhausted.
get_object(pool) ==
    IF pool.available_objects # <<>>
    THEN LET obj == pool.available_objects[Len(pool.available_objects)]
         IN  [pool |-> [pool EXCEPT
                          !.available_objects = SubSeq(@, 1, Len(@) - 1),
                          !.active_objects = Append(@, obj)],
              obj |-> Some(obj)]
    ELSE IF Len(pool.active_objects) < pool.max_size
    THEN LET obj == <<pool.kind, pool.created + 1>>
         IN  [pool |-> [pool EXCEPT !.active_objects = Append(@, obj),
                                    !.created = @ + 1],
              obj |-> Some(obj)]
    ELSE [pool |-> pool, obj |-> None]

\* ObjectPool.return_object, but for the kill() of _cleanup_object, which
\* return_bullet and return_enemy below apply to the groups.
return_objectUnchecked(pool, obj) ==
    [pool EXCEPT
        !.active_objects = IF obj \in Range(@) THEN Remove(@, obj) ELSE @,
        !.available_objects =
            IF Len(@) < pool.max_size THEN Append(@, obj) ELSE @]

return_object(pool, obj) ==
    IF obj \in Range(pool.active_objects)
    THEN [pool EXCEPT
            !.active_objects = Remove(@, obj),
            !.available_objects =
                IF Len(@) < pool.max_size THEN Append(@, obj) ELSE @]
    ELSE pool

PoolManager ==
    [bullet_pool |-> ObjectPool("bullet", BULLET_POOL_INITIAL, BULLET_POOL_MAX),
     enemy_pool |-> ObjectPool("enemy", ENEMY_POOL_INITIAL, ENEMY_POOL_MAX)]

---------------------------------------------------------------------------
(* GameLogic (src/game_logic.py).  The object is a record g; a sprite group *)
(* is the set of its sprites (before the first start_game, where the code   *)
(* has None, the empty set), walked in ascending order of creation.  Of a   *)
(* sprite the record holds what the game logic reads: the player's lives,   *)
(* invincibility and shoot cooldown, an enemy's type, health and score      *)
(* value.  Where sprites are on the screen is not part of the record: which *)
(* sprites left the screen in a frame and which overlap are inputs of the   *)
(* calls.  trace is auxiliary: the calls of Enemy.hit and Player.hit made   *)
(* since the caller's last call into the game, each with the bullet (or the *)
(* player) and the enemy it was made for, what it returned, and whether the *)
(* enemy was in the enemies group when it was made.                         *)

GAME_INIT == 0
GAME_START == 1
GAME_OVER == 2
GAME_PAUSED == 3

ENEMY_SPAWN_DELAY == 60
ENEMY_INITIAL_COUNT == 8
PLAYER_LIVES == 3

EnemyKinds == {"normal", "fast", "heavy"}

\* ENEMY_TYPES: health and score_value of a type.
ENEMY_TYPES ==
    [normal |-> [health |-> 1, score_value |-> 10],
     fast |-> [health |-> 1, score_value |-> 20],
     heavy |-> [health |-> 3, score_value |-> 50]]

\* Enemy.setup_enemy_properties
setup_enemy_properties(enemy_type) ==
    [enemy_type |-> enemy_type, health |-> ENEMY_TYPES[enemy_type].health,
     score_value |-> ENEMY_TYPES[enemy_type].score_value]

ThePlayer == <<"player", 0>>

\* self.player = None, and Player()
NoPlayer == [created |-> FALSE, lives |-> 0, invincible |-> FALSE, shoot_cooldown |-> 0]
Player == [created |-> TRUE, lives |-> PLAYER_LIVES, invincible |-> FALSE, shoot_cooldown |-> 0]

\* GameLogic.__init__; Enemy.base_speed, a class attribute, is kept doubled.
GameLogic ==
    [state_manager |-> StateManager(GameState.INIT),
     game_status |-> GAME_INIT,
     show_instructions |-> FALSE,
     score |-> 0,
     pool_manager |-> PoolManager,
     enemy_spawn_timer |-> 0,
     enemy_spawn_delay |-> ENEMY_SPAWN_DELAY,
     base_enemy_spawn_delay |-> ENEMY_SPAWN_DELAY,
     difficulty_level |-> 1,
     all_sprites |-> {},
     enemies |-> {},
     bullets |-> {},
     explosions |-> {},
     explosions_created |-> 0,
     player |-> NoPlayer,
     enemy |-> [o \in { <<"enemy", i>> : i \in 1..ENEMY_POOL_INITIAL } |->
                   setup_enemy_properties("normal")],
     base_speed2 |-> 4,
     trace |-> <<>>]

\* A group in the order it is walked.
RECURSIVE Walk(_)
Walk(S) ==
    IF S = {} THEN <<>>
    ELSE LET m == CHOOSE x \in S : \A y \in S : x[2] <= y[2]
         IN  <<m>> \o Walk(S \ {m})

\* sprite.kill(): the sprite leaves every group it is in.
kill(g, sprite) ==
    [g EXCEPT !.all_sprites = @ \ {sprite}, !.enemies = @ \ {sprite},
              !.bullets = @ \ {sprite}, !.explosions = @ \ {sprite}]

\* PoolManager.get_enemy: [g, obj]; _reset_object sets the enemy's type,
\* health and score value.
get_enemy(g, enemy_type) ==
    LET r == get_object(g.pool_manager.enemy_pool)
    IN  [g |-> [g EXCEPT !.pool_manager.enemy_pool = r.pool,
                         !.enemy = IF r.obj = None THEN @
                                   ELSE Set(@, CHOOSE o \in r.obj : TRUE,
                                            setup_enemy_properties(enemy_type))],
         obj |-> r.obj]

\* PoolManager.return_enemy and return_bullet
return_enemy(g, enemy) ==
    LET g1 == IF enemy \in Range(g.pool_manager.enemy_pool.active_objects)
              THEN kill(g, enemy) ELSE g
    IN  [g1 EXCEPT !.pool_manager.enemy_pool = return_object(@, enemy)]

return_bullet(g, bullet) ==
    LET g1 == IF bullet \in Range(g.pool_manager.bullet_pool.active_objects)
              THEN kill(g, bullet) ELSE g
    IN  [g1 EXCEPT !.pool_manager.bullet_pool = return_object(@, bullet)]

\* GameLogic.spawn_enemy, the type drawn being enemy_type: the enemy joins
\* the groups only if all_sprites and enemies are both non-empty (a
\* pygame Group is false when it is empty).
spawn_enemy(g, enemy_type) ==
    LET r == get_enemy(g, enemy_type)
    IN  IF r.obj # None /\ r.g.all_sprites # {} /\ r.g.enemies # {}
        THEN [r.g EXCEPT !.all_sprites = @ \cup r.obj, !.enemies = @ \cup r.obj]
        ELSE r.g

RECURSIVE spawn_enemies(_, _)
spawn_enemies(g, types) ==
    IF types = <<>> THEN g
    ELSE spawn_enemies(spawn_enemy(g, Head(types)), Tail(types))

\* GameLogic.start_game; types are the types drawn for the initial enemies.
start_game(g, types) ==
    LET t == sm_start_game(g.state_manager)
        g1 == IF t.result
              THEN [g EXCEPT !.state_manager = t.sm, !.game_status = GAME_START,
                             !.score = 0]
              ELSE [g EXCEPT !.state_manager = t.sm]
        g2 == [g1 EXCEPT !.enemy_spawn_timer = 0,
                         !.enemy_spawn_delay = ENEMY_SPAWN_DELAY,
                         !.base_enemy_spawn_delay = ENEMY_SPAWN_DELAY,
                         !.difficulty_level = 1,
                         !.all_sprites = {ThePlayer},
                         !.enemies = {},
                         !.bullets = {},
                         !.explosions = {},
                         !.player = Player]
    IN  spawn_enemies(g2, types)

\* for bullet in self.bullets.copy(): bullet.kill(); return_bullet(bullet)
RECURSIVE retire_bullets(_, _)
retire_bullets(g, sprites) ==
    IF sprites = <<>> THEN g
    ELSE retire_bullets(return_bullet(kill(g, Head(sprites)), Head(sprites)),
                        Tail(sprites))

RECURSIVE retire_enemies(_, _)
retire_enemies(g, sprites) ==
    IF sprites = <<>> THEN g
    ELSE retire_enemies(return_enemy(kill(g, Head(sprites)), Head(sprites)),
                        Tail(sprites))

\* GameLogic.game_over
game_over(g) ==
    LET t == sm_end_game(g.state_manager)
        g1 == [g EXCEPT !.state_manager = t.sm]
    IN  IF ~t.result THEN g1
        ELSE LET g2 == [g1 EXCEPT !.game_status = GAME_OVER]
                 g3 == retire_bullets(g2, Walk(g2.bullets))
             IN  retire_enemies(g3, Walk(g3.enemies))

\* GameLogic.toggle_pause
toggle_pauseKeepStatus(g) ==
    LET t == sm_toggle_pause(g.state_manager)
    IN  [g EXCEPT !.state_manager = t.sm]

toggle_pause(g) ==
    LET t == sm_toggle_pause(g.state_manager)
        g1 == [g EXCEPT !.state_manager = t.sm]
    IN  IF ~t.result THEN g1
        ELSE IF is_playing(t.sm) THEN [g1 EXCEPT !.game_status = GAME_START]
        ELSE IF is_paused(t.sm) THEN [g1 EXCEPT !.game_status = GAME_PAUSED]
        ELSE g1

\* GameLogic.toggle_instructions
toggle_instructions(g) ==
    LET sm == g.state_manager
    IN  IF is_state(sm, GameState.INSTRUCTIONS)
        THEN LET g1 ==
                   IF sm._previous_state = GameState.INIT
                   THEN [g EXCEPT
                           !.state_manager = transition_to(sm, GameState.INIT, FALSE).sm,
                           !.game_status = GAME_INIT]
                   ELSE IF sm._previous_state = GameState.GAME_OVER
                   THEN [g EXCEPT
                           !.state_manager = transition_to(sm, GameState.GAME_OVER, FALSE).sm,
                           !.game_status = GAME_OVER]
                   ELSE g
             IN  [g1 EXCEPT !.show_instructions = FALSE]
        ELSE IF g.game_status \in {GAME_INIT, GAME_OVER}
        THEN LET t == sm_show_instructions(sm)
             IN  [g EXCEPT !.state_manager = t.sm,
                           !.show_instructions = IF t.result THEN TRUE ELSE @]
        ELSE g

\* GameLogic.update_difficulty
update_difficultyNoFloor(g) ==
    LET new_difficulty == (g.score \div 100) + 1
    IN  IF new_difficulty # g.difficulty_level
        THEN [g EXCEPT
                !.difficulty_level = new_difficulty,
                !.enemy_spawn_delay =
                    g.base_enemy_spawn_delay - (new_difficulty - 1) * 5,
                !.base_speed2 = Min(16, 4 + (new_difficulty - 1))]
        ELSE g

update_difficulty(g) ==
    LET new_difficulty == (g.score \div 100) + 1
    IN  IF new_difficulty # g.difficulty_level
        THEN [g EXCEPT
                !.difficulty_level = new_difficulty,
                !.enemy_spawn_delay =
                    Max(20, g.base_enemy_spawn_delay - (new_difficulty - 1) * 5),
                !.base_speed2 = Min(16, 4 + (new_difficulty - 1))]
        ELSE g

\* Player.update: the invincibility ends when its time has passed (expired)
\* and the shoot cooldown counts down.
Player_update(p, expired) ==
    [p EXCEPT !.invincible = IF @ /\ expired THEN FALSE ELSE @,
              !.shoot_cooldown = IF @ > 0 THEN @ - 1 ELSE @]

\* self.all_sprites.update(): the player is updated; gone are the bullets
\* that passed the top, the enemies that passed the bottom and the
\* explosions that ended, each of which kill()s itself in its update.
all_sprites_update(g, expired, gone) ==
    [g EXCEPT !.player = IF ThePlayer \in g.all_sprites
                          THEN Player_update(@, expired) ELSE @,
              !.all_sprites = @ \ gone, !.enemies = @ \ gone,
              !.bullets = @ \ gone, !.explosions = @ \ gone]

\* GameLogic.cleanup_offscreen_sprites; out are the sprites still in their
\* group that are off the screen.
cleanup_offscreen_sprites(g, out) ==
    LET g1 == retire_bullets(g, Walk(g.bullets \cap out))
    IN  retire_enemies(g1, Walk(g1.enemies \cap out))

\* GameLogic.update
updateAlways(g, expired, gone, out, enemy_type) ==
    LET g1 == update_difficulty(g)
        g2 == all_sprites_update(g1, expired, gone)
        g3 == cleanup_offscreen_sprites(g2, out)
        g4 == [g3 EXCEPT !.enemy_spawn_timer = @ + 1]
    IN  IF g4.enemy_spawn_timer >= g4.enemy_spawn_delay
        THEN [spawn_enemy(g4, enemy_type) EXCEPT !.enemy_spawn_timer = 0]
        ELSE g4

update(g, expired, gone, out, enemy_type) ==
    IF ~is_playing(g.state_manager) THEN g
    ELSE
    LET g1 == update_difficulty(g)
        g2 == all_sprites_update(g1, expired, gone)
        g3 == cleanup_offscreen_sprites(g2, out)
        g4 == [g3 EXCEPT !.enemy_spawn_timer = @ + 1]
    IN  IF g4.enemy_spawn_timer >= g4.enemy_spawn_delay
        THEN [spawn_enemy(g4, enemy_type) EXCEPT !.enemy_spawn_timer = 0]
        ELSE g4

\* GameLogic.handle_player_shooting: [g, raised].  Player has no method
\* can_shoot, so the call that tests it ends with an AttributeError.
handle_player_shooting(g, is_shooting) ==
    [g |-> g,
     raised |-> is_playing(g.state_manager) /\ is_shooting /\ g.player.created]

\* explosion = Explosion(...); self.explosions.add; self.all_sprites.add
add_explosion(g) ==
    LET explosion == <<"explosion", g.explosions_created + 1>>
    IN  [g EXCEPT !.explosions = @ \cup {explosion},
                  !.all_sprites = @ \cup {explosion},
                  !.explosions_created = @ + 1]

\* The body of the loop over the bullets' hit lists: the first enemy of the
\* list is hit, then the bullet is returned.
bullet_hits(g, bullet, enemy, enemy_type) ==
    LET g1 == [g EXCEPT
                 !.enemy[enemy].health = @ - 1,
                 !.trace = Append(@, [call |-> "Enemy.hit", by |-> bullet,
                                      enemy |-> enemy,
                                      result |-> g.enemy[enemy].health - 1 <= 0,
                                      in_play |-> enemy \in g.enemies])]
        g2 == IF g1.enemy[enemy].health <= 0
              THEN spawn_enemy(
                      add_explosion(
                        return_enemy(
                          kill([g1 EXCEPT !.score = @ + g1.enemy[enemy].score_value],
                               enemy),
                          enemy)),
                      enemy_type)
              ELSE g1
    IN  return_bullet(kill(g2, bullet), bullet)

RECURSIVE bullets_loop(_, _, _)
bullets_loop(g, hits, enemy_type) ==
    IF hits = <<>> THEN g
    ELSE bullets_loop(bullet_hits(g, Head(hits)[1], Head(hits)[2], enemy_type),
                      Tail(hits), enemy_type)

\* Player.hit: [p, result]
Player_hitAlways(p) ==
    [p |-> [p EXCEPT !.lives = @ - 1, !.invincible = TRUE], result |-> TRUE]

Player_hit(p) ==
    IF ~p.invincible
    THEN [p |-> [p EXCEPT !.lives = @ - 1, !.invincible = TRUE], result |-> TRUE]
    ELSE [p |-> p, result |-> FALSE]

\* The body of the loop over the enemies that overlap the player.
player_hit_by(g, hit, enemy_type) ==
    LET h == Player_hit(g.player)
        g1 == [g EXCEPT
                 !.player = h.p,
                 !.trace = Append(@, [call |-> "Player.hit", by |-> ThePlayer,
                                      enemy |-> hit, result |-> h.result,
                                      in_play |-> hit \in g.enemies])]
        g2 == IF h.result THEN add_explosion(g1) ELSE g1
        g3 == spawn_enemy(return_enemy(kill(g2, hit), hit), enemy_type)
    IN  IF g3.player.lives <= 0 THEN game_over(g3) ELSE g3

RECURSIVE player_loop(_, _, _)
player_loop(g, hits, enemy_type) ==
    IF hits = <<>> THEN g
    ELSE player_loop(player_hit_by(g, Head(hits), enemy_type), Tail(hits), enemy_type)

\* pygame.sprite.groupcollide(bullets, enemies, False, False), as the list
\* of the bullets that overlap an enemy, each with the first enemy of its
\* hit list; overlap is the set of the pairs <<bullet, enemy>> that overlap.
first_hitsNoBreak(bullets, enemies, overlap) ==
    LET hit == { b \in bullets : \E e \in enemies : <<b, e>> \in overlap }
        list(b) == Walk({ e \in enemies : <<b, e>> \in overlap })
        RECURSIVE all(_)
        all(bs) ==
            IF bs = <<>> THEN <<>>
            ELSE [i \in 1..Len(list(Head(bs))) |-> <<Head(bs), list(Head(bs))[i]>>]
                 \o all(Tail(bs))
    IN  all(Walk(hit))

first_hits(bullets, enemies, overlap) ==
    LET hit == { b \in bullets : \E e \in enemies : <<b, e>> \in overlap }
    IN  [i \in 1..Cardinality(hit) |->
            <<Walk(hit)[i], Walk({ e \in enemies : <<Walk(hit)[i], e>> \in overlap })[1]>>]

\* GameLogic.check_collisions; touching are the enemies that overlap the
\* player.
check_collisions(g, overlap, touching, enemy_type) ==
    IF ~is_playing(g.state_manager) THEN g
    ELSE
    LET g1 == bullets_loop(g, first_hits(g.bullets, g.enemies, overlap), enemy_type)
    IN  IF g1.player.created
        THEN player_loop(g1, Walk(g1.enemies \cap touching), enemy_type)
        ELSE g1

---------------------------------------------------------------------------
(* InputHandler (src/input_handler.py) *)

Keys == {"escape", "space", "p", "h"}

\* InputHandler._handle_keydown: [g, quit_requested]; keys_pressed, which
\* the game logic does not read, is left out.
_handle_keydown(g, key, types) ==
    LET current_state == g.state_manager._current_state
    IN  IF key = "escape"
        THEN [g |-> g, quit_requested |-> TRUE]
        ELSE IF key = "space"
        THEN [g |-> IF current_state \in {GameState.INIT, GameState.GAME_OVER}
                    THEN start_game(g, types) ELSE g,
              quit_requested |-> FALSE]
        ELSE IF key = "p"
        THEN [g |-> IF current_state \in {GameState.PLAYING, GameState.PAUSED}
                    THEN toggle_pause(g) ELSE g,
              quit_requested |-> FALSE]
        ELSE IF key = "h"
        THEN [g |-> IF current_state \in {GameState.INIT, GameState.GAME_OVER}
                    THEN toggle_instructions(g) ELSE g,
              quit_requested |-> FALSE]
        ELSE [g |-> g, quit_requested |-> FALSE]

---------------------------------------------------------------------------
(* The game: a GameLogic object that receives the key events of             *)
(* InputHandler and, in any order, the calls of a frame (update,            *)
(* check_collisions, handle_player_shooting); game_over() is also called    *)
(* on it, as check_collisions calls it for each enemy that touches a        *)
(* player with no life left: while the game is being played and, for a      *)
(* later enemy of the same list, when it is already over.  hist is [from],  *)
(* the state of the state manager before the last call.                     *)

\* The types drawn for the enemies of these runs.
SpawnKinds == {"normal"}

engine == <<cell_size, hash_table, rect, cache, access_order, max_size,
            groupA, groupB, stats>>

\* The log of the state manager and the trace start afresh with each call.
Begin(g) == [g EXCEPT !.state_manager.log = <<>>, !.trace = <<>>]

InitGame ==
    /\ cell_size = DEFAULT_CELL_SIZE
    /\ hash_table = EmptyTable
    /\ rect = <<>>
    /\ cache = NoCache
    /\ access_order = <<>>
    /\ max_size = DEFAULT_MAX_SIZE
    /\ groupA = {}
    /\ groupB = {}
    /\ stats = ZeroStats
    /\ op = "init"
    /\ args = <<>>
    /\ ret = FALSE
    /\ hist = [from |-> NoState]
    /\ game = GameLogic

KeyDown(key) ==
    \E kind \in SpawnKinds :
      \E r \in { _handle_keydown(Begin(game), key,
                                 [i \in 1..ENEMY_INITIAL_COUNT |-> kind]) } :
        /\ game' = r.g
        /\ op' = "keydown"
        /\ args' = <<key>>
        /\ ret' = r.quit_requested
        /\ hist' = [hist EXCEPT !.from = game.state_manager._current_state]
        /\ UNCHANGED engine

Update ==
    \E expired \in (IF game.player.invincible THEN BOOLEAN ELSE {FALSE}),
       gone \in SUBSET (game.bullets \cup game.enemies \cup game.explosions),
       kind \in SpawnKinds :
      \E out \in SUBSET ((game.bullets \cup game.enemies) \ gone) :
        /\ game' = update(Begin(game), expired, gone, out, kind)
        /\ op' = "update"
        /\ args' = <<>>
        /\ ret' = FALSE
        /\ hist' = [hist EXCEPT !.from = game.state_manager._current_state]
        /\ UNCHANGED engine

CheckCollisions ==
    \E overlap \in SUBSET (game.bullets \X game.enemies),
       touching \in SUBSET game.enemies, kind \in SpawnKinds :
        /\ game' = check_collisions(Begin(game), overlap, touching, kind)
        /\ op' = "check_collisions"
        /\ args' = <<overlap, touching>>
        /\ ret' = FALSE
        /\ hist' = [hist EXCEPT !.from = game.state_manager._current_state]
        /\ UNCHANGED engine

\* InputHandler.update_continuous_input passes the state of the space key.
HandlePlayerShooting(is_shooting) ==
    \E r \in { handle_player_shooting(Begin(game), is_shooting) } :
        /\ game' = r.g
        /\ op' = "handle_player_shooting"
        /\ args' = <<is_shooting>>
        /\ ret' = r.raised
        /\ hist' = [hist EXCEPT !.from = game.state_manager._current_state]
        /\ UNCHANGED engine

GameOver ==
    /\ game.state_manager._current_state \in {GameState.PLAYING, GameState.GAME_OVER}
    /\ game' = game_over(Begin(game))
    /\ op' = "game_over"
    /\ args' = <<>>
    /\ ret' = FALSE
    /\ hist' = [hist EXCEPT !.from = game.state_manager._current_state]
    /\ UNCHANGED engine

NextGame ==
    \/ \E key \in Keys : KeyDown(key)
    \/ Update
    \/ CheckCollisions
    \/ \E is_shooting \in BOOLEAN : HandlePlayerShooting(is_shooting)
    \/ GameOver

SpecGame == InitGame /\ [][NextGame]_vars

---------------------------------------------------------------------------
(* Claims about the state manager and the game logic, under SpecGame *)

\* C25: without force, transition_to changes the current state only along
\* the table of allowed transitions: a request the table does not allow
\* returns False, leaves the current and the previous state as they were
\* and runs no callback; a request for the current state returns True and
\* changes nothing either.  GameLogic never forces, so every change of
\* state in a run is an edge of the table and INIT is never entered again
\* once left.
C25_TransitionsFollowTable ==
    [][ /\ \A i \in DOMAIN game'.state_manager.log :
             LET e == game'.state_manager.log[i]
                 same == e.current_after = e.from /\ e.previous_after = e.previous
             IN  /\ ~e.force
                 /\ e.from = e.to => e.result /\ same /\ e.called = <<>>
                 /\ (e.from # e.to /\ e.to \notin _allowed_transitions[e.from]) =>
                        ~e.result /\ same /\ e.called = <<>>
                 /\ e.current_after # e.from =>
                        /\ e.to \in _allowed_transitions[e.from]
                        /\ e.current_after = e.to
                        /\ e.result
        /\ game'.state_manager._current_state # game.state_manager._current_state =>
              game'.state_manager._current_state
                  \in _allowed_transitions[game.state_manager._current_state]
        /\ game.state_manager._current_state # GameState.INIT =>
              game'.state_manager._current_state # GameState.INIT ]_vars

\* A request the table does not allow has been made and refused: H in INIT
\* asks for INSTRUCTIONS.
C25_Witness ==
    /\ op = "keydown"
    /\ \E i \in DOMAIN game.state_manager.log :
          LET e == game.state_manager.log[i]
          IN  e.from # e.to /\ e.to \notin _allowed_transitions[e.from] /\ ~e.result

\* A request for the current state has been made: game_over() when the game
\* is already over.
C25_WitnessSameState ==
    /\ op = "game_over"
    /\ \E i \in DOMAIN game.state_manager.log :
          LET e == game.state_manager.log[i]
          IN  e.from = e.to /\ e.result

\* A state has changed along an edge of the table after INIT was left.
C25_WitnessEdge ==
    /\ game.state_manager._previous_state \notin {NoState, GameState.INIT}
    /\ \E i \in DOMAIN game.state_manager.log :
          game.state_manager.log[i].current_after # game.state_manager.log[i].from

\* C26: pressing H while the game is in INIT or in GAME_OVER shows the
\* instructions: after the key event the state manager is in INSTRUCTIONS
\* and show_instructions is true.
C26_HShowsInstructions ==
    [][ ( /\ op' = "keydown"
          /\ args' = <<"h">>
          /\ game.state_manager._current_state
                \in {GameState.INIT, GameState.GAME_OVER} ) =>
        /\ game'.state_manager._current_state = GameState.INSTRUCTIONS
        /\ game'.show_instructions ]_vars

\* C27: pressing H while the instructions are shown returns the game to the
\* state it was in before and sets show_instructions to false, so that two
\* presses of H from GAME_OVER end in GAME_OVER.
C27_HHidesInstructions ==
    [][ ( /\ op' = "keydown"
          /\ args' = <<"h">>
          /\ game.state_manager._current_state = GameState.INSTRUCTIONS ) =>
        /\ game'.state_manager._current_state = game.state_manager._previous_state
        /\ ~game'.show_instructions ]_vars

\* The games one key event (SPACE, P or H) leads to from the games of S.
KeySteps(S) ==
    { _handle_keydown(Begin(g), key, [i \in 1..ENEMY_INITIAL_COUNT |-> kind]).g :
        <<g, key, kind>> \in S \X {"space", "p", "h"} \X SpawnKinds }

\* Some sequence of key events leads from a game of S to PLAYING.
RECURSIVE LeadsToPlaying(_)
LeadsToPlaying(S) ==
    IF \E g \in S : is_playing(g.state_manager) THEN TRUE
    ELSE IF KeySteps(S) \subseteq S THEN FALSE
    ELSE LeadsToPlaying(S \cup KeySteps(S))

\* C28: no reachable state of the game is a dead end: from every state
\* reached through the key events and through game-over, some further
\* sequence of the key events SPACE, P, H leads to PLAYING.
C28_NoDeadEnd == LeadsToPlaying({Begin(game)})

\* C29: game_status and show_instructions agree with the state manager:
\* PLAYING iff GAME_START, PAUSED iff GAME_PAUSED, INIT implies GAME_INIT,
\* GAME_OVER implies game_status GAME_OVER, and show_instructions iff the
\* state is INSTRUCTIONS.
C29_StatusAgrees ==
    LET s == game.state_manager._current_state
    IN  /\ (s = GameState.PLAYING) <=> (game.game_status = GAME_START)
        /\ (s = GameState.PAUSED) <=> (game.game_status = GAME_PAUSED)
        /\ (s = GameState.INIT) => (game.game_status = GAME_INIT)
        /\ (s = GameState.GAME_OVER) => (game.game_status = GAME_OVER)
        /\ game.show_instructions <=> (s = GameState.INSTRUCTIONS)

\* P has paused a game.
C29_Witness ==
    /\ op = "keydown"
    /\ args = <<"p">>
    /\ game.state_manager._current_state = GameState.PAUSED
    /\ game.game_status = GAME_PAUSED

\* H has opened the instructions of a game that is over.
C29_WitnessInstructions ==
    /\ op = "keydown"
    /\ args = <<"h">>
    /\ game.state_manager._current_state = GameState.INSTRUCTIONS
    /\ game.show_instructions
    /\ game.game_status = GAME_OVER

\* P has resumed a paused game.
C29_WitnessResumed ==
    /\ op = "keydown"
    /\ args = <<"p">>
    /\ hist.from = GameState.PAUSED
    /\ game.state_manager._current_state = GameState.PLAYING
    /\ game.game_status = GAME_START

\* C30: while the state is not PLAYING, update(), check_collisions() and
\* handle_player_shooting() leave the score, the player and its lives, the
\* difficulty, the spawn timer, the sprite groups and the pools unchanged.
C30_IdleOutsidePlaying ==
    [][ ( /\ op' \in {"update", "check_collisions", "handle_player_shooting"}
          /\ ~is_playing(game.state_manager) ) =>
        /\ game'.score = game.score
        /\ game'.player = game.player
        /\ game'.difficulty_level = game.difficulty_level
        /\ game'.enemy_spawn_delay = game.enemy_spawn_delay
        /\ game'.enemy_spawn_timer = game.enemy_spawn_timer
        /\ game'.all_sprites = game.all_sprites
        /\ game'.enemies = game.enemies
        /\ game'.bullets = game.bullets
        /\ game'.explosions = game.explosions
        /\ game'.pool_manager = game.pool_manager
        /\ game'.state_manager._current_state = game.state_manager._current_state ]_vars

\* update() has been called on a paused game whose spawn timer was running.
C30_Witness ==
    /\ op = "update"
    /\ hist.from = GameState.PAUSED
    /\ game.player.created
    /\ game.enemy_spawn_timer > 0
    /\ game.pool_manager.enemy_pool.active_objects # <<>>

\* handle_player_shooting(True) has been called on a game that is over.
C30_WitnessShooting ==
    /\ op = "handle_player_shooting"
    /\ args = <<TRUE>>
    /\ hist.from = GameState.GAME_OVER
    /\ ~ret

\* check_collisions() has been called while the instructions are shown.
C30_WitnessCollisions ==
    /\ op = "check_collisions"
    /\ hist.from = GameState.INSTRUCTIONS
    /\ game.player.created

\* C33: spawn_enemy adds the enemy the pool returns to all_sprites and to
\* enemies, also when the enemies group is empty; right after start_game()
\* the enemies group holds the 8 initial enemies.
C33_InitialEnemiesJoin ==
    [][ ( /\ op' = "keydown"
          /\ args' = <<"space">>
          /\ game.state_manager._current_state
                \in {GameState.INIT, GameState.GAME_OVER}
          /\ Len(game.pool_manager.enemy_pool.available_objects)
                >= ENEMY_INITIAL_COUNT ) =>
        /\ Cardinality(game'.enemies) = ENEMY_INITIAL_COUNT
        /\ game'.enemies \subseteq game'.all_sprites
        /\ game'.enemies
              \subseteq Range(game'.pool_manager.enemy_pool.active_objects) ]_vars

---------------------------------------------------------------------------
(* An ObjectPool on its own (src/object_pool.py): game is the pool, built   *)
(* with an initial size and a maximum size, and its callers get objects     *)
(* from it and return objects to it, also objects that are not active and   *)
(* objects the pool never made.  hist is [pool], the pool before the last   *)
(* call.                                                                    *)

MaxPoolSize == 3

\* The objects a caller may return: those of the pool and one more.
PoolObjects == { <<"object", n>> : n \in 1..(2 * MaxPoolSize + 1) }

InitPool ==
    /\ cell_size = DEFAULT_CELL_SIZE
    /\ hash_table = EmptyTable
    /\ rect = <<>>
    /\ cache = NoCache
    /\ access_order = <<>>
    /\ max_size = DEFAULT_MAX_SIZE
    /\ groupA = {}
    /\ groupB = {}
    /\ stats = ZeroStats
    /\ op = "init"
    /\ args = <<>>
    /\ ret = None
    /\ \E initial_size \in 0..MaxPoolSize, maxsz \in 1..MaxPoolSize :
          /\ game = ObjectPool("object", initial_size, maxsz)
          /\ hist = [pool |-> ObjectPool("object", initial_size, maxsz)]

GetObject ==
    \E r \in { get_object(game) } :
        /\ game' = r.pool
        /\ op' = "get_object"
        /\ args' = <<>>
        /\ ret' = r.obj
        /\ hist' = [pool |-> game]
        /\ UNCHANGED engine

ReturnObject(obj) ==
    /\ game' = return_object(game, obj)
    /\ op' = "return_object"
    /\ args' = <<obj>>
    /\ ret' = None
    /\ hist' = [pool |-> game]
    /\ UNCHANGED engine

NextPool ==
    \/ GetObject
    \/ \E obj \in PoolObjects : ReturnObject(obj)

SpecPool == InitPool /\ [][NextPool]_vars

\* A list without duplicates.
NoDuplicates(s) == \A i, j \in DOMAIN s : s[i] = s[j] => i = j

\* C36: after any sequence of get_object and return_object the available
\* and the active list are disjoint and free of duplicates, get_object
\* never hands out an object that is active, return_object of an object
\* that is not active changes nothing, and the two lists together hold at
\* most max_size objects whenever initial_size <= max_size.
C36_PoolAccounting ==
    [][ /\ NoDuplicates(game'.available_objects)
        /\ NoDuplicates(game'.active_objects)
        /\ Range(game'.available_objects) \cap Range(game'.active_objects) = {}
        /\ op' = "get_object" =>
              /\ ret' \cap Range(game.active_objects) = {}
              /\ ret' \subseteq Range(game'.active_objects)
        /\ (op' = "return_object" /\ args'[1] \notin Range(game.active_objects)) =>
              game' = game
        /\ game.initial_size <= game.max_size =>
              Len(game'.available_objects) + Len(game'.active_objects)
                  <= game'.max_size ]_vars

\* An object has been returned a second time, while another is active.
C36_Witness ==
    /\ op = "return_object"
    /\ args[1] \in Range(hist.pool.available_objects)
    /\ game.active_objects # <<>>
    /\ game.initial_size <= game.max_size

\* The pool has made an object beyond its initial ones and is full.
C36_WitnessFull ==
    /\ op = "get_object"
    /\ ret # None
    /\ game.created > game.initial_size
    /\ game.available_objects = <<>>
    /\ Len(game.active_objects) = game.max_size

\* get_object has returned None.
C36_WitnessExhausted ==
    /\ op = "get_object"
    /\ ret = None
    /\ game.initial_size <= game.max_size

---------------------------------------------------------------------------
(* A game in play: a GameLogic object in PLAYING whose groups hold enemies  *)
(* and bullets taken from the pools, as spawn_enemy and                     *)
(* handle_player_shooting put them there, with a score and the difficulty   *)
(* that update_difficulty gives it.  The groups are attributes of the       *)
(* object that check_collisions, update and game_over read as they find     *)
(* them.  The calls are update, check_collisions and game_over, in any      *)
(* order, with at most MaxFrames frames updated while playing.  hist is     *)
(* [from, frames].                                                          *)

MaxFrames == 2
MaxBullets == 2
MaxLeaving == 1

\* The types of the enemies in play, the scores and the bullets in play at
\* the start of a run.
EnemyStarts == { <<"normal">>, <<"normal", "normal">>, <<"heavy", "normal">> }
ScoreStarts == {0, 90, 890}

\* The starts of the runs: any of the enemies and up to MaxBullets bullets
\* in a game without score, and two normal enemies and a bullet in a game
\* with a score, whose spawn timer may be two frames before the next enemy.
Starts ==
    { <<types, bullets, 0, FALSE>> :
        <<types, bullets>> \in EnemyStarts \X (0..MaxBullets) }
    \cup { <<<<"normal", "normal">>, 1, score, late>> :
              <<score, late>> \in ScoreStarts \X BOOLEAN }

\* An enemy from the pool joins the groups (spawn_enemy, lines 289-292).
enemy_in_play(g, enemy_type) ==
    LET r == get_enemy(g, enemy_type)
    IN  [r.g EXCEPT !.all_sprites = @ \cup r.obj, !.enemies = @ \cup r.obj]

\* A bullet from the pool joins the groups (handle_player_shooting, lines
\* 184-187).
bullet_in_play(g) ==
    LET r == get_object(g.pool_manager.bullet_pool)
    IN  [g EXCEPT !.pool_manager.bullet_pool = r.pool,
                  !.bullets = @ \cup r.obj, !.all_sprites = @ \cup r.obj]

RECURSIVE enemies_in_play(_, _)
enemies_in_play(g, types) ==
    IF types = <<>> THEN g
    ELSE enemies_in_play(enemy_in_play(g, Head(types)), Tail(types))

RECURSIVE bullets_in_play(_, _)
bullets_in_play(g, n) ==
    IF n = 0 THEN g ELSE bullets_in_play(bullet_in_play(g), n - 1)

\* The game after start_game, with these enemies and bullets in play, this
\* score and the spawn timer at 0 or two frames before the next enemy.
InPlay(types, bullets, score, late) ==
    LET g == update_difficulty(
                 [bullets_in_play(
                     enemies_in_play(start_game(GameLogic, <<>>), types), bullets)
                  EXCEPT !.score = score])
    IN  Begin([g EXCEPT !.enemy_spawn_timer =
                            IF late THEN g.enemy_spawn_delay - 2 ELSE 0])

InitPlay ==
    /\ cell_size = DEFAULT_CELL_SIZE
    /\ hash_table = EmptyTable
    /\ rect = <<>>
    /\ cache = NoCache
    /\ access_order = <<>>
    /\ max_size = DEFAULT_MAX_SIZE
    /\ groupA = {}
    /\ groupB = {}
    /\ stats = ZeroStats
    /\ op = "init"
    /\ args = <<>>
    /\ ret = FALSE
    /\ hist = [from |-> GameState.PLAYING, frames |-> 0]
    /\ \E start \in Starts :
          game = InPlay(start[1], start[2], start[3], start[4])

\* The sets of at most MaxLeaving sprites of S.
Leaving(S) == { T \in SUBSET S : Cardinality(T) <= MaxLeaving }

\* update(), counted while the game is being played; at most MaxLeaving
\* sprites end or leave the screen in a frame, and as many are found off
\* the screen by the cleanup.
PlayUpdate ==
    /\ is_playing(game.state_manager) => hist.frames < MaxFrames
    /\ \E expired \in (IF game.player.invincible THEN BOOLEAN ELSE {FALSE}),
          gone \in Leaving(game.bullets \cup game.enemies \cup game.explosions),
          kind \in SpawnKinds :
         \E out \in Leaving((game.bullets \cup game.enemies) \ gone) :
           /\ game' = update(Begin(game), expired, gone, out, kind)
           /\ op' = "update"
           /\ args' = <<>>
           /\ ret' = FALSE
           /\ hist' = [from |-> game.state_manager._current_state,
                       frames |-> IF is_playing(game.state_manager)
                                  THEN hist.frames + 1 ELSE hist.frames]
           /\ UNCHANGED engine

NextPlay ==
    \/ PlayUpdate
    \/ CheckCollisions
    \/ GameOver

SpecPlay == InitPlay /\ [][NextPlay]_vars

---------------------------------------------------------------------------
(* Claims about a game in play, under SpecPlay *)

\* C31: the player's lives stay within 0..PLAYER_LIVES: a hit while the
\* player is invincible does not reduce them, several enemies overlapping
\* the player in one check_collisions call cost at most one life, and when
\* a check_collisions call leaves the lives at 0 the state is GAME_OVER at
\* the end of the call.
C31_LivesInRange ==
    [][ /\ game'.player.lives \in 0..PLAYER_LIVES
        /\ op' = "check_collisions" =>
              /\ game.player.invincible => game'.player.lives = game.player.lives
              /\ game'.player.lives >= game.player.lives - 1
              /\ game'.player.lives <= game.player.lives
              /\ (game'.player.created /\ game'.player.lives = 0) =>
                    game'.state_manager._current_state = GameState.GAME_OVER ]_vars

\* Two enemies overlapped the player in the call that took the last life:
\* the first hit counted, the second did not, and the game is over.
C31_Witness ==
    /\ op = "check_collisions"
    /\ hist.from = GameState.PLAYING
    /\ game.player.lives = 0
    /\ game.state_manager._current_state = GameState.GAME_OVER
    /\ \E i, j \in DOMAIN game.trace :
          /\ i < j
          /\ game.trace[i].call = "Player.hit" /\ game.trace[i].result
          /\ game.trace[j].call = "Player.hit" /\ ~game.trace[j].result

\* An enemy overlapped a player that was invincible before the call.
C31_WitnessInvincible ==
    /\ op = "check_collisions"
    /\ game.player.lives = PLAYER_LIVES - 1
    /\ game.trace # <<>>
    /\ \A i \in DOMAIN game.trace :
          game.trace[i].call = "Player.hit" /\ ~game.trace[i].result

HitList(b, enemies, overlap) == { e \in enemies : <<b, e>> \in overlap }

\* The calls of Enemy.hit made for bullet b.
HitsBy(trace, b) ==
    { i \in DOMAIN trace : trace[i].call = "Enemy.hit" /\ trace[i].by = b }

\* C35: a bullet hits only one enemy: in one check_collisions call each
\* bullet that overlaps enemies damages exactly one enemy, an enemy of its
\* hit list, and is then out of the bullets group and back in the bullet
\* pool; a bullet that overlaps no enemy damages none.
C35_OneEnemyPerBullet ==
    [][ (op' = "check_collisions" /\ is_playing(game.state_manager)) =>
        \A b \in game.bullets :
            IF HitList(b, game.enemies, args'[1]) # {}
            THEN /\ Cardinality(HitsBy(game'.trace, b)) = 1
                 /\ \A i \in HitsBy(game'.trace, b) :
                       game'.trace[i].enemy \in HitList(b, game.enemies, args'[1])
                 /\ b \notin game'.bullets
                 /\ b \notin game'.all_sprites
                 /\ b \in Range(game'.pool_manager.bullet_pool.available_objects)
                 /\ b \notin Range(game'.pool_manager.bullet_pool.active_objects)
            ELSE HitsBy(game'.trace, b) = {} ]_vars

\* A bullet that overlapped two enemies has hit one of them, while another
\* bullet overlapped none and stayed in play.
C35_Witness ==
    /\ op = "check_collisions"
    /\ hist.from = GameState.PLAYING
    /\ \E b \in { p[1] : p \in args[1] } :
          /\ Cardinality({ p \in args[1] : p[1] = b }) = 2
          /\ Cardinality(HitsBy(game.trace, b)) = 1
          /\ b \in Range(game.pool_manager.bullet_pool.available_objects)
    /\ game.bullets # {}

\* Two bullets have each hit an enemy in one call.
C35_WitnessTwoBullets ==
    /\ op = "check_collisions"
    /\ hist.from = GameState.PLAYING
    /\ Cardinality({ game.trace[i].by : i \in HitsBy(game.trace, <<"bullet", 19>>)
                                            \cup HitsBy(game.trace, <<"bullet", 20>>) }) = 2
    /\ game.bullets = {}

C37_WitnessReset ==
    /\ op = "update"
    /\ hist.from = GameState.PLAYING
    /\ game.score = 100
    /\ game.difficulty_level = 2
    /\ game.enemy_spawn_delay = 55
    /\ game.enemy_spawn_timer = 0
    /\ hist.frames = 1

\* An update has let the timer run on, one frame before the next enemy.
C37_WitnessRunning ==
    /\ op = "update"
    /\ hist.from = GameState.PLAYING
    /\ game.enemy_spawn_timer = game.enemy_spawn_delay - 1

====
